---------------------------- MODULE Spec2Model ----------------------------
(***************************************************************************)
(* Model of the resilient DICOM pixel decoding engine of FundusReaderWriter *)
(* (src/app/core/dicom_io.py): the raw-byte sample reconstruction, the      *)
(* decode tier cascade and the retry loop of DicomFile.get_pixel_array.     *)
(*                                                                          *)
(* Four specifications:                                                     *)
(*   SpecRecon  the raw-byte reconstruction applied to bounded inputs       *)
(*   SpecScan   the manual tag scan applied to bounded byte strings         *)
(*   Spec       the life of one DicomFile object over one container file    *)
(*   SpecConfig pydicom.config under two threads decoding one file each     *)
(***************************************************************************)
EXTENDS Integers, Sequences, FiniteSets, TLC

VARIABLES
    \* ---- SpecRecon: one reconstruction
    rc_in,          \* the values the reconstruction code reads
    rc_site,        \* which of the three reconstruction code sites ran
    rc_out,         \* what it produced
    \* ---- Spec: one DicomFile object
    file,           \* the container file on storage (what the decoders see)
    pc,             \* position of the caller / of get_pixel_array
    dataset,        \* self.dataset
    ds_creator,     \* self.dataset holds the private creator element of PRIVATE_CREATOR
    pixel_array,    \* self._pixel_array
    last_error,     \* get_pixel_array's local last_error
    attempt,        \* get_pixel_array's loop variable attempt
    tier,           \* index into approaches of the next approach to call
    invoked,        \* the approaches called so far in the current attempt
    attempts_run,   \* number of cascades started by the current call
    tier_calls,     \* number of approach() calls made by the current call
    observed,       \* the exception most recently raised by an approach() call
    picture_uid,    \* self.picture_uid
    meta_uid,       \* self.metadata["picture_uid"]
    metadata,       \* self.metadata, the fields of _extract_metadata
    generated,      \* number of identifiers pydicom.uid.generate_uid has made
    ret,            \* what the last finished operation gave its caller
    \* ---- SpecScan: one manual tag scan (_read_ultra_conservative, last resort)
    sc_bytes,       \* the bytes of the file after preamble and signature
    sc_pc,          \* position of the scan: in the loop, out of it, finished
    sc_pos,         \* f.tell()
    sc_rows,        \* the scan's locals rows, cols, bits_allocated,
    sc_cols,        \*   samples_per_pixel, pixel_data
    sc_bits,
    sc_samples,
    sc_pixel,
    sc_trace,       \* one record per loop iteration: what the scan met and did
    sc_out,         \* what the reconstruction after the scan produced
    \* ---- SpecConfig: pydicom.config shared by the decoding threads
    config,         \* pydicom.config: the attributes the code assigns
    ENV_INITIALIZED, \* the module-level sentinel _ENV_INITIALIZED
    env,            \* what the installation provides (JPEG_SUPPORT, handlers)
    th,             \* per thread: position in its operation and its locals
    \* ---- SpecTiff: one TIFFReader object over one image and its sidecars
    tf_src,         \* what the image and the metadata files around it hold
    tf_meta,        \* self._meta
    tf_ret,         \* what get_metadata returned
    \* ---- SpecExport: one Exporter.bulk_export call over a directory
    ex_dir,         \* dicom_directory.dicom_files: per file, object and storage
    ex_run,         \* the call: its arguments, position, loop index and results
    ex_log          \* one record per file processed: what was done to it

recon_vars == <<rc_in, rc_site, rc_out>>
scan_vars == <<sc_bytes, sc_pc, sc_pos, sc_rows, sc_cols, sc_bits, sc_samples,
               sc_pixel, sc_trace, sc_out>>
cfg_vars == <<config, ENV_INITIALIZED, env, th>>
tiff_vars == <<tf_src, tf_meta, tf_ret>>
exp_vars == <<ex_dir, ex_run, ex_log>>
uid_vars == <<picture_uid, meta_uid, metadata, generated>>
loop_vars == <<last_error, attempt, tier, invoked, attempts_run, tier_calls,
               observed>>
obj_vars == <<file, pc, dataset, ds_creator, pixel_array, last_error, attempt, tier,
              invoked, attempts_run, tier_calls, observed, picture_uid,
              meta_uid, metadata, generated, ret>>
vars == <<rc_in, rc_site, rc_out, file, pc, dataset, ds_creator, pixel_array, last_error,
          attempt, tier, invoked, attempts_run, tier_calls, observed,
          picture_uid, meta_uid, metadata, generated, ret,
          sc_bytes, sc_pc, sc_pos, sc_rows, sc_cols, sc_bits, sc_samples,
          sc_pixel, sc_trace, sc_out, config, ENV_INITIALIZED, env, th,
          tf_src, tf_meta, tf_ret, ex_dir, ex_run, ex_log>>

-----------------------------------------------------------------------------
(* Bounds of the model *)

\* largest rows / columns value drawn
MaxDim == 2
\* longest raw pixel byte string drawn
MaxLen == 6
\* identifiers generate_uid may produce in one run
MaxGenerated == 1

\* Python's None for an integer-valued local or a missing dataset attribute
None == -1

\* a dict: a function from the keys present to their values
Dicts(keys, values) == UNION {[ks -> values] : ks \in SUBSET keys}

EmptyDict == [k \in {} |-> ""]

\* dict.update(other) and dict.setdefault(key, value)
update(d, other) ==
    [k \in DOMAIN d \cup DOMAIN other |-> IF k \in DOMAIN other THEN other[k] ELSE d[k]]

setdefault(d, key, value) ==
    IF key \in DOMAIN d THEN d ELSE update(d, [k \in {key} |-> value])

\* dict.pop(key, None) for each key of a set
pop_all(d, keys) == [k \in DOMAIN d \ keys |-> d[k]]

\* byte values drawn for raw pixel data (distinct low and high bytes)
ByteVals == {0, 255}
ByteSeqs == UNION {[1..n -> ByteVals] : n \in 0..MaxLen}
DimVals == {None} \cup (0..MaxDim)
BitVals == {None, 1, 8, 12, 16, 32}
SampleVals == {None, 0, 1, 3}

-----------------------------------------------------------------------------
(* numpy and Python primitives used by the reconstruction code *)

RECURSIVE Product(_)
Product(s) == IF s = <<>> THEN 1 ELSE Head(s) * Product(Tail(s))

\* Python slice b[:n] for n >= 0
SliceTo(b, n) == SubSeq(b, 1, IF n < Len(b) THEN n ELSE Len(b))

\* dtype = np.uint16 if bits == 16 else np.uint8
Dtype(bits) == IF bits = 16 THEN "uint16" ELSE "uint8"

ItemSize(dtype) == IF dtype = "uint16" THEN 2 ELSE 1

\* np.frombuffer raises ValueError unless the buffer is a whole number of items
FrombufferOK(buf, dtype) == Len(buf) % ItemSize(dtype) = 0

FrombufferBE(buf, dtype) ==
    IF dtype = "uint16"
    THEN [i \in 1..(Len(buf) \div 2) |-> 256 * buf[2 * i - 1] + buf[2 * i]]
    ELSE buf

\* np.frombuffer(buf, dtype): unsigned samples, little-endian for uint16
Frombuffer(buf, dtype) ==
    IF dtype = "uint16"
    THEN [i \in 1..(Len(buf) \div 2) |-> buf[2 * i - 1] + 256 * buf[2 * i]]
    ELSE buf

ReshapeInferOK(arr, shape) == Product(shape) # 0 /\ Len(arr) % Product(shape) = 0

\* ndarray.reshape(shape) raises ValueError unless the element counts agree
ReshapeOK(arr, shape) == Len(arr) = Product(shape)

\* expected_size = rows * cols * samples * (bits // 8)
ExpectedSize(rows, cols, samples, bits) == rows * cols * samples * (bits \div 8)

Raster(shape, data) == [kind |-> "raster", why |-> "", shape |-> shape, data |-> data]
Fail(why) == [kind |-> "fail", why |-> why, shape |-> <<>>, data |-> <<>>]
NoResult == [kind |-> "none", why |-> "", shape |-> <<>>, data |-> <<>>]

\* arr.size
Size(r) == Len(r.data)

\* the same tail without the length guard and the reshape
BuildTruncated(raw, rows, cols, samples, bits) ==
    LET dtype == Dtype(bits)
        buf == SliceTo(raw, ExpectedSize(rows, cols, samples, bits))
        shape == IF samples = 1 THEN <<rows, cols>> ELSE <<rows, cols, samples>>
    IN  IF FrombufferOK(buf, dtype)
        THEN Raster(shape, Frombuffer(buf, dtype))
        ELSE Fail("ValueError")

\* the shared tail of the three sites: the length guard, frombuffer, reshape
Build(raw, rows, cols, samples, bits) ==
    LET dtype == Dtype(bits)
        expected == ExpectedSize(rows, cols, samples, bits)
        buf == SliceTo(raw, expected)
        shape == IF samples = 1 THEN <<rows, cols>> ELSE <<rows, cols, samples>>
    IN  IF Len(raw) >= expected
        THEN IF ~FrombufferOK(buf, dtype) THEN Fail("ValueError")
             ELSE IF ~ReshapeOK(Frombuffer(buf, dtype), shape) THEN Fail("ValueError")
             ELSE Raster(shape, Frombuffer(buf, dtype))
        ELSE Fail("short")

\* the same, asking for bits_allocated as well
ReconstructManualNeedsBits(pixel_data, rows, cols, bits_allocated, samples_per_pixel) ==
    IF pixel_data # <<>> /\ rows \notin {None, 0} /\ cols \notin {None, 0}
       /\ bits_allocated \notin {None, 0}
    THEN Build(pixel_data, rows, cols,
               IF samples_per_pixel \in {None, 0} THEN 1 ELSE samples_per_pixel,
               bits_allocated)
    ELSE Fail("nothing")

\* _read_ultra_conservative, manual binary parsing: from the scan's locals
ReconstructManual(pixel_data, rows, cols, bits_allocated, samples_per_pixel) ==
    IF pixel_data # <<>> /\ rows \notin {None, 0} /\ cols \notin {None, 0}
    THEN LET bits == IF bits_allocated \in {None, 0} THEN 16 ELSE bits_allocated
             samples == IF samples_per_pixel \in {None, 0} THEN 1 ELSE samples_per_pixel
         IN  Build(pixel_data, rows, cols, samples, bits)
    ELSE Fail("nothing")

\* _read_skip_large_elements, after ds.pixel_array raised: from ds attributes
ReconstructSkipLarge(PixelData, Rows, Columns, BitsAllocated, SamplesPerPixel) ==
    IF PixelData # <<>>
    THEN LET rows == IF Rows = None THEN 512 ELSE Rows
             cols == IF Columns = None THEN 512 ELSE Columns
             samples == IF SamplesPerPixel = None THEN 1 ELSE SamplesPerPixel
             bits == IF BitsAllocated = None THEN 16 ELSE BitsAllocated
         IN  Build(PixelData, rows, cols, samples, bits)
    ELSE Fail("nothing")

\* _read_ultra_conservative, second try: from ds attributes
ReconstructSecondTry(PixelData, Rows, Columns, BitsAllocated, SamplesPerPixel) ==
    IF PixelData # <<>>
    THEN LET rows == IF Rows = None THEN 0 ELSE Rows
             cols == IF Columns = None THEN 0 ELSE Columns
             bits == IF BitsAllocated = None THEN 8 ELSE BitsAllocated
             samples == IF SamplesPerPixel = None THEN 1 ELSE SamplesPerPixel
         IN  IF rows > 0 /\ cols > 0
             THEN Build(PixelData, rows, cols, samples, bits)
             ELSE Fail("nothing")
    ELSE Fail("nothing")

-----------------------------------------------------------------------------
(* SpecRecon: the three reconstruction sites applied to drawn inputs *)

ReconInputs ==
    [pixel_data : ByteSeqs, rows : DimVals, cols : DimVals,
     bits : BitVals, samples : SampleVals]

IdleObject ==
    /\ file = <<>>
    /\ pc = "off"
    /\ dataset = <<>>
    /\ ds_creator = FALSE
    /\ pixel_array = NoResult
    /\ last_error = <<>>
    /\ attempt = 0
    /\ tier = 0
    /\ invoked = <<>>
    /\ attempts_run = 0
    /\ tier_calls = 0
    /\ observed = <<>>
    /\ picture_uid = "None"
    /\ meta_uid = "None"
    /\ metadata = <<>>
    /\ generated = 0
    /\ ret = <<>>

\* no scan is under way
IdleScan ==
    /\ sc_bytes = <<>>
    /\ sc_pc = "off"
    /\ sc_pos = 0
    /\ sc_rows = None
    /\ sc_cols = None
    /\ sc_bits = None
    /\ sc_samples = None
    /\ sc_pixel = <<>>
    /\ sc_trace = <<>>
    /\ sc_out = NoResult

\* no decoding thread is modelled
IdleConfig ==
    /\ config = <<>>
    /\ ENV_INITIALIZED = FALSE
    /\ env = <<>>
    /\ th = <<>>

\* no TIFFReader and no Exporter is modelled
IdleTiff ==
    /\ tf_src = <<>>
    /\ tf_meta = <<>>
    /\ tf_ret = <<>>

IdleExport ==
    /\ ex_dir = <<>>
    /\ ex_run = <<>>
    /\ ex_log = <<>>

InitRecon ==
    /\ rc_in \in ReconInputs
    /\ rc_site = "none"
    /\ rc_out = NoResult
    /\ IdleObject
    /\ IdleScan
    /\ IdleConfig
    /\ IdleTiff
    /\ IdleExport

ApplyManual ==
    /\ rc_site = "none"
    /\ rc_site' = "manual"
    /\ rc_out' = ReconstructManual(rc_in.pixel_data, rc_in.rows, rc_in.cols,
                                   rc_in.bits, rc_in.samples)
    /\ UNCHANGED <<rc_in, obj_vars, scan_vars, cfg_vars, tiff_vars, exp_vars>>

ApplySkipLarge ==
    /\ rc_site = "none"
    /\ rc_site' = "skip_large"
    /\ rc_out' = ReconstructSkipLarge(rc_in.pixel_data, rc_in.rows, rc_in.cols,
                                      rc_in.bits, rc_in.samples)
    /\ UNCHANGED <<rc_in, obj_vars, scan_vars, cfg_vars, tiff_vars, exp_vars>>

ApplySecondTry ==
    /\ rc_site = "none"
    /\ rc_site' = "second_try"
    /\ rc_out' = ReconstructSecondTry(rc_in.pixel_data, rc_in.rows, rc_in.cols,
                                      rc_in.bits, rc_in.samples)
    /\ UNCHANGED <<rc_in, obj_vars, scan_vars, cfg_vars, tiff_vars, exp_vars>>

NextRecon == ApplyManual \/ ApplySkipLarge \/ ApplySecondTry

SpecRecon == InitRecon /\ [][NextRecon]_vars

-----------------------------------------------------------------------------
(* Properties of the raw-byte reconstruction (checked under SpecRecon) *)

\* the geometry a site works with once its defaults are applied
GeometryInForce(site, in) ==
    CASE site = "manual" ->
            [rows |-> in.rows, cols |-> in.cols,
             bits |-> IF in.bits \in {None, 0} THEN 16 ELSE in.bits,
             samples |-> IF in.samples \in {None, 0} THEN 1 ELSE in.samples]
      [] site = "skip_large" ->
            [rows |-> IF in.rows = None THEN 512 ELSE in.rows,
             cols |-> IF in.cols = None THEN 512 ELSE in.cols,
             bits |-> IF in.bits = None THEN 16 ELSE in.bits,
             samples |-> IF in.samples = None THEN 1 ELSE in.samples]
      [] OTHER ->
            [rows |-> IF in.rows = None THEN 0 ELSE in.rows,
             cols |-> IF in.cols = None THEN 0 ELSE in.cols,
             bits |-> IF in.bits = None THEN 8 ELSE in.bits,
             samples |-> IF in.samples = None THEN 1 ELSE in.samples]

\* the bytes a raster's samples occupy: one per sample, or two little-endian
EncodeLE(data, bits) ==
    IF bits = 16
    THEN [k \in 1..(2 * Len(data)) |->
            IF k % 2 = 1 THEN data[(k + 1) \div 2] % 256 ELSE data[k \div 2] \div 256]
    ELSE data

\* C7: at each of the three reconstruction sites, with
\* expected = rows * columns * samples_per_pixel * (bits_allocated // 8) for the
\* geometry in force, raw pixel bytes shorter than expected never yield a
\* raster, and a returned raster is neither padded nor cut: it has one element
\* per declared sample and its samples are the first expected bytes of the input.
C7_ShortInputFails ==
    rc_site # "none" =>
        LET g == GeometryInForce(rc_site, rc_in)
            raw == rc_in.pixel_data
            expected == g.rows * g.cols * g.samples * (g.bits \div 8)
        IN  /\ (g.rows # None /\ g.cols # None /\ Len(raw) < expected)
                    => rc_out.kind = "fail"
            /\ rc_out.kind = "raster" =>
                    /\ Len(raw) >= expected
                    /\ Len(rc_out.data) = g.rows * g.cols * g.samples
                    /\ EncodeLE(rc_out.data, g.bits) = SliceTo(raw, expected)

\* a reconstruction was refused because the raw bytes were too short
C7_Witness ==
    /\ rc_site = "manual"
    /\ rc_in.rows = 2 /\ rc_in.cols = 2 /\ rc_in.bits = 16 /\ rc_in.samples = 1
    /\ Len(rc_in.pixel_data) = 6
    /\ rc_out = Fail("short")

\* C8 (as claimed): a non-empty raster is only ever reconstructed for
\* bits_allocated 8 or 16; every other depth yields no raster.
C8_OnlyDepth8And16 ==
    (rc_site # "none" /\ rc_out.kind = "raster" /\ Size(rc_out) > 0)
        => GeometryInForce(rc_site, rc_in).bits \in {8, 16}

\* C9: every raster returned by a reconstruction site has exactly
\* rows * columns * samples_per_pixel elements for the geometry in force.
C9_ElementCount ==
    (rc_site # "none" /\ rc_out.kind = "raster") =>
        LET g == GeometryInForce(rc_site, rc_in)
        IN  Len(rc_out.data) = g.rows * g.cols * g.samples

\* a three-sample raster was reconstructed from more bytes than it needs
C9_Witness ==
    /\ rc_site = "skip_large"
    /\ rc_in.samples = 3 /\ rc_in.rows = 1 /\ rc_in.cols = 1 /\ rc_in.bits = 8
    /\ Len(rc_in.pixel_data) = 5
    /\ rc_out.kind = "raster"
    /\ Len(rc_out.data) = 3

ValidGeometry(in) ==
    /\ in.rows \in 1..MaxDim
    /\ in.cols \in 1..MaxDim
    /\ in.bits \in {8, 16}
    /\ in.samples \in {1, 3}

\* C10: for valid geometry (depth 8 or 16, 1 or 3 samples) and raw bytes of
\* exactly the expected size, the manual-scan reconstruction returns a raster
\* shaped (rows, columns) for one sample and (rows, columns, samples) otherwise
\* whose samples, in row-major order, encode back to exactly the input bytes.
C10_RoundTrip ==
    (/\ rc_site = "manual"
     /\ ValidGeometry(rc_in)
     /\ Len(rc_in.pixel_data) =
            rc_in.rows * rc_in.cols * rc_in.samples * (rc_in.bits \div 8))
    => /\ rc_out.kind = "raster"
       /\ rc_out.shape = IF rc_in.samples = 1
                         THEN <<rc_in.rows, rc_in.cols>>
                         ELSE <<rc_in.rows, rc_in.cols, rc_in.samples>>
       /\ Len(rc_out.data) = rc_in.rows * rc_in.cols * rc_in.samples
       /\ EncodeLE(rc_out.data, rc_in.bits) = rc_in.pixel_data
       /\ \A i \in 1..Len(rc_out.data) :
            rc_out.data[i] =
                IF rc_in.bits = 16
                THEN rc_in.pixel_data[2 * i - 1] + 256 * rc_in.pixel_data[2 * i]
                ELSE rc_in.pixel_data[i]

\* a 16-bit, three-sample pixel whose samples have distinct low and high bytes
C10_Witness ==
    /\ rc_site = "manual"
    /\ rc_in.rows = 1 /\ rc_in.cols = 1 /\ rc_in.bits = 16 /\ rc_in.samples = 3
    /\ rc_in.pixel_data = <<0, 255, 255, 0, 255, 255>>
    /\ rc_out = Raster(<<1, 1, 3>>, <<65280, 255, 65535>>)

-----------------------------------------------------------------------------
(* SpecScan: the manual tag scan of _read_ultra_conservative over drawn files *)

\* most elements a drawn file is made of
MaxElems == 3

\* files in the directory handed to bulk_export
MaxFiles == 3

\* f.seek(132): the preamble (128 bytes) and the DICM prefix (4 bytes)
Preamble == 132

\* 100 * 1024 * 1024, the bound of the size checks
LengthBound == 104857600

\* struct.unpack('<H', b)[0]
U16(b) == b[1] + 256 * b[2]

\* struct.unpack('<I', b)[0]; values from 2^30 on are all represented by 2^30:
\* the scan only compares them with 2 and with LengthBound and seeks by them
U32(b) ==
    IF b[4] >= 64 THEN 1073741824
    ELSE b[1] + 256 * b[2] + 65536 * b[3] + 16777216 * b[4]

\* length == 0xFFFFFFFF, on the four bytes of the length field
NeverUndefined(b) == FALSE

IsUndefinedLength(b) == b = <<255, 255, 255, 255>>

\* the tags the scan looks for, as (group, element)
TagRows == <<40, 16>>
TagColumns == <<40, 17>>
TagBitsAllocated == <<40, 256>>
TagSamplesPerPixel == <<40, 2>>
TagPixelData == <<32736, 16>>

\* vr.isalpha() for a decoded ASCII character
IsAlpha(c) == c \in (65..90) \cup (97..122)

\* ['OB', 'OW', 'OF', 'SQ', 'UT', 'UN']
LongVRsWithoutOW == {<<79, 66>>, <<79, 70>>, <<83, 81>>, <<85, 84>>, <<85, 78>>}

LongVRs == {<<79, 66>>, <<79, 87>>, <<79, 70>>, <<83, 81>>, <<85, 84>>, <<85, 78>>}

FileSize == Preamble + Len(sc_bytes)

\* f.read(n) at position pos: the bytes there are, at most n
ReadAt(pos, n) ==
    LET first == pos - Preamble + 1
        last == IF pos - Preamble + n < Len(sc_bytes)
                THEN pos - Preamble + n ELSE Len(sc_bytes)
    IN  IF first > last THEN <<>> ELSE SubSeq(sc_bytes, first, last)

\* Elements the drawn files are made of (little-endian, implicit VR unless
\* said otherwise)
ElRows == <<40, 0, 16, 0, 2, 0, 0, 0, 1, 0>>
ElColumns == <<40, 0, 17, 0, 2, 0, 0, 0, 1, 0>>
\* BitsAllocated = 8, explicit VR US
ElBits == <<40, 0, 0, 1, 85, 83, 2, 0, 8, 0>>
ElPixel == <<224, 127, 16, 0, 2, 0, 0, 0, 0, 255>>
\* pixel data, explicit VR OW
ElPixelOW == <<224, 127, 16, 0, 79, 87, 0, 0, 2, 0, 0, 0, 0, 255>>
\* pixel data whose length field says 256, more than any drawn file holds
ElPixelLong == <<224, 127, 16, 0, 0, 1, 0, 0, 0, 255>>
\* pixel data whose length field says 0x10000000, above LengthBound
ElPixelHuge == <<224, 127, 16, 0, 0, 0, 0, 16, 0, 255>>
\* (0008,0060) with a two-byte value
ElOther == <<8, 0, 96, 0, 2, 0, 0, 0, 79, 84>>
\* (0008,1140) with undefined length, followed by an item delimiter
ElUndefined == <<8, 0, 64, 17, 255, 255, 255, 255, 254, 255, 221, 224, 0, 0, 0, 0>>
\* (0008,0000) with length 0
ElEmpty == <<8, 0, 0, 0, 0, 0, 0, 0>>

\* pixel data, explicit VR OB, undefined length (encapsulated), then an item tag
ElPixelUndefined == <<224, 127, 16, 0, 79, 66, 0, 0, 255, 255, 255, 255, 254, 255, 0, 224>>
\* Rows cut off after the first byte of its value
ElRowsCut == <<40, 0, 16, 0, 2, 0, 0, 0, 1>>
\* (0008,0008), implicit VR, whose length 0x00006161 starts with the letters "aa"
ElLetters == <<8, 0, 8, 0, 97, 97, 0, 0>>
\* pixel data, explicit VR OW, cut off inside its length field
ElPixelOWCut == <<224, 127, 16, 0, 79, 87, 0, 0, 2, 0>>

ScanElems ==
    {ElRows, ElColumns, ElBits, ElPixel, ElPixelOW, ElPixelLong, ElPixelHuge,
     ElOther, ElUndefined, ElEmpty, ElPixelUndefined, ElRowsCut, ElLetters,
     ElPixelOWCut}

RECURSIVE Flatten(_)
Flatten(ss) == IF ss = <<>> THEN <<>> ELSE Head(ss) \o Flatten(Tail(ss))

ScanFiles ==
    {Flatten(es) : es \in UNION {[1..n -> ScanElems] : n \in 0..MaxElems}}

\* no reconstruction site is being exercised
IdleRecon ==
    /\ rc_in = <<>>
    /\ rc_site = "off"
    /\ rc_out = NoResult

\* with open(...): f.seek(132); the locals; file_size; f.seek(132)
InitScan ==
    /\ sc_bytes \in ScanFiles
    /\ sc_pc = "scan"
    /\ sc_pos = Preamble
    /\ sc_rows = None
    /\ sc_cols = None
    /\ sc_bits = None
    /\ sc_samples = None
    /\ sc_pixel = <<>>
    /\ sc_trace = <<>>
    /\ sc_out = NoResult
    /\ IdleRecon
    /\ IdleObject
    /\ IdleConfig
    /\ IdleTiff
    /\ IdleExport

\* what one loop iteration met and did
Met(at, tag, explicit, long, length, did, next) ==
    [at |-> at, tag |-> tag, explicit |-> explicit, long |-> long,
     length |-> length, did |-> did, next |-> next]

\* if length > 0 and length < 100 * 1024 * 1024
SaneAlsoZero(length) == length < LengthBound

Sane(length) == length > 0 /\ length < LengthBound

\* f.seek(current_pos + 8, 0) of the exception handler
RecoverInPlace(current_pos) == current_pos

Recover(current_pos) == current_pos + 8

\* one iteration of the while loop: tag, VR probe, length, then the tag's case
scan_element ==
    /\ sc_pc = "scan"
    /\ sc_pos < FileSize - 8
    /\ LET pos == sc_pos
           tag_bytes == ReadAt(pos, 4)
           vr == ReadAt(pos + 4, 2)
           explicit == Len(vr) = 2 /\ IsAlpha(vr[1]) /\ IsAlpha(vr[2])
           long == explicit /\ vr \in LongVRs
           need == IF explicit /\ ~long THEN 2 ELSE 4
           length_bytes == IF long THEN ReadAt(pos + 8, 4)
                           ELSE IF explicit THEN ReadAt(pos + 6, 2)
                           ELSE ReadAt(pos + 4, 4)
           p1 == IF long THEN pos + 12 ELSE pos + 8
           cut == Len(tag_bytes) < 4 \/ Len(vr) < 2 \/ Len(length_bytes) < need
           tag == IF Len(tag_bytes) < 4 THEN <<None, None>>
                  ELSE <<U16(SubSeq(tag_bytes, 1, 2)), U16(SubSeq(tag_bytes, 3, 4))>>
           length == IF cut THEN None
                     ELSE IF need = 2 THEN U16(length_bytes) ELSE U32(length_bytes)
           value == ReadAt(p1, 2)
           geometry == tag \in {TagRows, TagColumns, TagBitsAllocated, TagSamplesPerPixel}
           did == CASE cut -> "cut"
                    [] need = 4 /\ IsUndefinedLength(length_bytes) -> "undefined"
                    [] geometry /\ length = 2 /\ Len(value) < 2 -> "error"
                    [] geometry /\ length = 2 -> "captured"
                    [] geometry -> "skipped"
                    [] tag = TagPixelData /\ Sane(length) -> "pixels"
                    [] tag = TagPixelData -> "no pixels"
                    [] Sane(length) -> "skipped"
                    [] OTHER -> "stopped"
           next == CASE did = "cut" -> FileSize
                     [] did = "undefined" -> p1 + 8
                     [] did = "error" -> Recover(pos)
                     [] did = "captured" -> p1 + 2
                     [] did = "skipped" -> p1 + length
                     [] did = "pixels" -> p1 + Len(ReadAt(p1, length))
                     [] OTHER -> p1
       IN  /\ sc_pos' = next
           /\ sc_pc' = IF did \in {"cut", "pixels", "no pixels", "stopped"}
                       THEN "stopped" ELSE "scan"
           /\ sc_rows' = IF did = "captured" /\ tag = TagRows
                         THEN U16(value) ELSE sc_rows
           /\ sc_cols' = IF did = "captured" /\ tag = TagColumns
                         THEN U16(value) ELSE sc_cols
           /\ sc_bits' = IF did = "captured" /\ tag = TagBitsAllocated
                         THEN U16(value) ELSE sc_bits
           /\ sc_samples' = IF did = "captured" /\ tag = TagSamplesPerPixel
                            THEN U16(value) ELSE sc_samples
           /\ sc_pixel' = IF did = "pixels" THEN ReadAt(p1, length) ELSE sc_pixel
           /\ sc_trace' = Append(sc_trace,
                                 Met(pos, tag, explicit, long, length, did, next))
    /\ UNCHANGED <<sc_bytes, sc_out, recon_vars, obj_vars, cfg_vars, tiff_vars, exp_vars>>

\* after the loop: the reconstruction from the scan's locals, or the raise
scan_finish ==
    /\ \/ sc_pc = "stopped"
       \/ sc_pc = "scan" /\ ~(sc_pos < FileSize - 8)
    /\ sc_pc' = "done"
    /\ sc_out' = ReconstructManual(sc_pixel, sc_rows, sc_cols, sc_bits, sc_samples)
    /\ UNCHANGED <<sc_bytes, sc_pos, sc_rows, sc_cols, sc_bits, sc_samples,
                   sc_pixel, sc_trace, recon_vars, obj_vars, cfg_vars, tiff_vars, exp_vars>>

NextScan == scan_element \/ scan_finish

SpecScan == InitScan /\ [][NextScan]_vars

-----------------------------------------------------------------------------
(* Properties of the manual tag scan (checked under SpecScan) *)

ScanDone == sc_pc = "done"

\* the iterations in which the scan met the given tag
MetTag(tag) == {i \in DOMAIN sc_trace : sc_trace[i].tag = tag}

\* the scan captured a value of the given geometry tag
Captured(tag) == \E i \in MetTag(tag) : sc_trace[i].did = "captured"

\* C11 (as claimed): a file in which the scan found rows and columns and met a
\* pixel-data element whose length field exceeds the size of the file gives
\* no raster.
C11_OversizedLengthRejected ==
    (/\ ScanDone
     /\ Captured(TagRows)
     /\ Captured(TagColumns)
     /\ \E i \in MetTag(TagPixelData) : sc_trace[i].length > FileSize)
        => sc_out.kind = "fail"

\* C12 (as claimed): when the scan ends without a raster, it met no
\* pixel-data element and captured neither rows nor columns.
C12_FailsOnlyIfNothingFound ==
    (ScanDone /\ sc_out.kind = "fail")
        => /\ MetTag(TagPixelData) = {}
           /\ ~Captured(TagRows)
           /\ ~Captured(TagColumns)

\* C12 (amended): the scan hands nothing to the reconstruction exactly when it
\* ends with no pixel bytes captured, or with rows or columns not captured or
\* zero; pixel bytes are captured exactly by an iteration that met a
\* pixel-data element of sane length with bytes behind it, and with all three
\* captured the reconstruction is attempted.
C12_FailsWhenAnyPartMissing ==
    ScanDone =>
        LET pixels == \E i \in MetTag(TagPixelData) :
                        sc_trace[i].did = "pixels" /\ sc_trace[i].next > sc_trace[i].at + 8
            rows == Captured(TagRows) /\ sc_rows > 0
            cols == Captured(TagColumns) /\ sc_cols > 0
        IN  /\ (sc_pixel # <<>>) = pixels
            /\ sc_rows # None => Captured(TagRows)
            /\ sc_cols # None => Captured(TagColumns)
            /\ (sc_out = Fail("nothing")) = ~(pixels /\ rows /\ cols)
            /\ (pixels /\ rows /\ cols) => sc_out.kind \in {"raster", "fail"}
            /\ sc_out.kind = "raster" => (pixels /\ rows /\ cols)

\* rows and columns were captured and no pixel-data element was met: no raster
C12_Witness ==
    /\ ScanDone
    /\ sc_bytes = ElRows \o ElColumns \o ElOther
    /\ sc_rows = 1
    /\ sc_cols = 1
    /\ MetTag(TagPixelData) = {}
    /\ sc_out = Fail("nothing")

\* the bytes of the file at positions pos .. pos + n - 1
BytesAt(pos, n) == SubSeq(sc_bytes, pos - Preamble + 1, pos - Preamble + n)

Uppercase(c) == c \in 65..90

\* OB, OW, OF, SQ, UT, UN as ASCII
FourByteLengthVRs ==
    {<<79, 66>>, <<79, 87>>, <<79, 70>>, <<83, 81>>, <<85, 84>>, <<85, 78>>}

\* the iterations that read a whole element header
Parsed == {i \in DOMAIN sc_trace : sc_trace[i].did # "cut"}

\* C23: an element whose two bytes after the tag are uppercase letters is
\* read as explicit VR, its length being the 4 bytes after a 2-byte reserved
\* field for OB/OW/OF/SQ/UT/UN and the 2 bytes after the VR otherwise; an
\* element whose two probe bytes are not both letters (bytes that are not
\* ASCII included) is read as implicit VR, its length being the 4 bytes that
\* start at the probe.
C23_VRProbe ==
    \A i \in Parsed :
        LET m == sc_trace[i]
            probe == BytesAt(m.at + 4, 2)
        IN  /\ (Uppercase(probe[1]) /\ Uppercase(probe[2])) =>
                /\ m.explicit
                /\ m.long = (probe \in FourByteLengthVRs)
                /\ m.length = IF probe \in FourByteLengthVRs
                              THEN U32(BytesAt(m.at + 8, 4))
                              ELSE U16(BytesAt(m.at + 6, 2))
            /\ ~(IsAlpha(probe[1]) /\ IsAlpha(probe[2])) =>
                /\ ~m.explicit
                /\ ~m.long
                /\ m.length = U32(BytesAt(m.at + 4, 4))

\* one scan that met an explicit element with a 2-byte length, an explicit
\* element with a 4-byte length and an implicit element
C23_Witness ==
    /\ ScanDone
    /\ \E i \in Parsed : sc_trace[i].explicit /\ ~sc_trace[i].long
    /\ \E i \in Parsed : sc_trace[i].long
    /\ \E i \in Parsed : ~sc_trace[i].explicit

\* where the header of the element met by iteration m ends
HeaderEnd(m) == IF m.long THEN m.at + 12 ELSE m.at + 8

\* the four bytes of the length field, for an element with a 4-byte length
LengthField(m) == IF m.long THEN BytesAt(m.at + 8, 4) ELSE BytesAt(m.at + 4, 4)

\* iteration i did not end the scan: the next iteration starts where it left
\* the cursor, or the loop ended on its condition with the cursor there
Continues(i) ==
    /\ i < Len(sc_trace) => sc_trace[i + 1].at = sc_trace[i].next
    /\ i = Len(sc_trace) =>
            /\ sc_pc # "stopped"
            /\ sc_pos = sc_trace[i].next
            /\ sc_pc = "done" => ~(sc_pos < FileSize - 8)

\* C24: an element whose 4-byte length is 0xFFFFFFFF, whatever its tag, does
\* not end the scan: the cursor is moved 8 bytes past the element's header
\* and the scan goes on from there.
C24_UndefinedLengthSkipped ==
    \A i \in Parsed :
        LET m == sc_trace[i]
        IN  ((~m.explicit \/ m.long) /\ LengthField(m) = <<255, 255, 255, 255>>) =>
                /\ m.did = "undefined"
                /\ m.next = HeaderEnd(m) + 8
                /\ Continues(i)

\* a pixel-data element of undefined length was skipped and the scan read
\* another element after it
C24_Witness ==
    /\ ScanDone
    /\ \E i \in Parsed :
            /\ sc_trace[i].tag = TagPixelData
            /\ sc_trace[i].did = "undefined"
            /\ i < Len(sc_trace)

FiveTags == {TagRows, TagColumns, TagBitsAllocated, TagSamplesPerPixel, TagPixelData}

\* C25: an element with none of the five tags and a defined length below
\* 100 MiB is skipped by its length and the scan goes on with what follows
\* it; with a length of 100 MiB or more the scan stops without seeking.
C25_OtherTagsSkippedWhenSane ==
    \A i \in Parsed :
        LET m == sc_trace[i]
        IN  (m.tag \notin FiveTags /\ m.did # "undefined") =>
                IF m.length < 104857600
                THEN m.did = "skipped" /\ m.next = HeaderEnd(m) + m.length /\ Continues(i)
                ELSE m.did = "stopped" /\ m.next = HeaderEnd(m)

\* an element of length 0 with another tag ended the scan
C25_ZeroLengthStops ==
    /\ ScanDone
    /\ \E i \in Parsed :
            /\ sc_trace[i].tag \notin FiveTags
            /\ sc_trace[i].length = 0
            /\ sc_trace[i].did = "stopped"
            /\ sc_trace[i].next < FileSize - 8

\* C26: every iteration after which the loop goes on leaves the cursor at
\* least 8 bytes beyond where the iteration started, the undefined-length
\* skip and the recovery after an error included; the cursor never moves
\* back, so the i-th iteration starts at least 8 * (i - 1) bytes into the
\* data and more than 8 bytes before the end of the file: a file of n bytes
\* is scanned in at most n / 8 iterations, and a scan that left the loop only
\* finishes.
C26_ScanAdvances ==
    [][/\ sc_pos' >= sc_pos
       /\ (sc_pc = "scan" /\ sc_pc' = "scan") => sc_pos' >= sc_pos + 8
       /\ \A i \in DOMAIN sc_trace' :
            /\ sc_trace'[i].at >= Preamble + 8 * (i - 1)
            /\ sc_trace'[i].at < FileSize - 8
       /\ sc_pc = "stopped" => sc_pc' = "done"]_vars

\* a finished scan that went through the undefined-length skip and through
\* the recovery after an error
C26_Witness ==
    /\ ScanDone
    /\ \E i \in DOMAIN sc_trace : sc_trace[i].did = "undefined"
    /\ \E i \in DOMAIN sc_trace : sc_trace[i].did = "error"

-----------------------------------------------------------------------------
(* Spec: one DicomFile object over one container file *)

\* max_attempts = 3 in get_pixel_array
max_attempts == 3

\* the approaches list of get_pixel_array, in call order
approaches_swapped ==
    <<"_read_with_force", "_read_with_defer_size", "_read_with_specific_syntax",
      "_read_with_decompression", "_read_raw_pixels", "_read_binary_parsing",
      "_read_ultra_conservative">>

approaches ==
    <<"_read_with_defer_size", "_read_with_force", "_read_with_specific_syntax",
      "_read_with_decompression", "_read_raw_pixels", "_read_binary_parsing",
      "_read_ultra_conservative">>

\* Container files drawn: what the primary decoder (pydicom) can parse of the
\* file ("none": every dcmread raises; "header": only reads that stop before
\* the pixel data succeed; "full": reads succeed), and the geometry tags and
\* pixel-data bytes the file holds; whether group PRIVATE_GROUP of the file holds
\* the private creator element PRIVATE_CREATOR, and the value stored in that
\* block as (0011,1001) ("None": no such element).
Elements(rows, cols, bits, samples, pix) ==
    [rows |-> rows, cols |-> cols, bits |-> bits, samples |-> samples, pix |-> pix]

SpecElements ==
    {Elements(1, 2, 8, 1, <<0, 255>>),      \* complete 1x2 8-bit image
     Elements(1, 2, 8, 1, <<0>>),           \* pixel data shorter than declared
     Elements(1, 1, 12, None, <<0, 255>>),  \* 12 bits allocated
     Elements(None, None, None, None, <<>>)} \* no geometry, no pixel data

SpecBlocks ==
    {[creator |-> FALSE, uid |-> "None"], [creator |-> TRUE, uid |-> "None"],
     [creator |-> TRUE, uid |-> "stored"]}

\* the patient and study elements of the container: all there, or the
\* patient's name empty and the other elements missing
SpecHeaders ==
    {[patient_name |-> "Doe^Jane", patient_id |-> "12345",
      patient_birth_date |-> "19600102", study_description |-> "Fundus"],
     [patient_name |-> ""]}

SpecFiles ==
    {[primary |-> p, rows |-> e.rows, cols |-> e.cols, bits |-> e.bits,
      samples |-> e.samples, pix |-> e.pix, creator |-> b.creator,
      uid |-> b.uid, torn |-> FALSE, header |-> h] :
        p \in {"none", "header", "full"}, e \in SpecElements, b \in SpecBlocks,
        h \in SpecHeaders}

\* self.dataset values: which read produced the handle, and in which attempt
\* of get_pixel_array (0: outside get_pixel_array)
Handle(kind, att) == [kind |-> kind, att |-> att]
NoDataset == Handle("None", 0)

\* exceptions: class, message, and the approach / attempt that raised
Error(cls, msg, by, att) == [cls |-> cls, msg |-> msg, by |-> by, att |-> att]
NoError == Error("", "", "", 0)

\* classes an `except Exception` clause catches
HandlerCatchesOnlyValueError(cls) == cls = "ValueError"

ExceptException(cls) ==
    cls \in {"Exception", "ValueError", "AttributeError", "RuntimeError"}

\* what ds.pixel_array gives on a parsed dataset: an array, an empty array,
\* or an exception of the decoder
PydicomArray == Raster(<<1, 1>>, <<1>>)
EmptyArray == Raster(<<0, 0>>, <<>>)
PixelArrayResults == {PydicomArray, EmptyArray, Fail("RuntimeError")}

\* one approach() call: what it returns or raises, and self.dataset after it
Out(res, ds) == [res |-> res, ds |-> ds]

\* dcmread(force=True, ...) then self.dataset = ds then return ds.pixel_array
ParseThenPixelArray(f, d, a) ==
    {Out(Fail("ValueError"), d)} \cup
    (IF f.primary = "full"
     THEN {Out(r, Handle("full", a)) : r \in PixelArrayResults}
     ELSE {})

read_with_defer_size(f, d, a) ==
    ParseThenPixelArray(f, d, a) \cup
    (IF f.primary = "full" THEN {Out(Fail("ValueError"), Handle("full", a))} ELSE {})

read_with_force(f, d, a) == ParseThenPixelArray(f, d, a)

read_with_specific_syntax(f, d, a) == ParseThenPixelArray(f, d, a)

read_with_decompression(f, d, a) == ParseThenPixelArray(f, d, a)

read_binary_parsing(f, d, a) == ParseThenPixelArray(f, d, a)

\* the three raw sub-approaches; every exception of theirs is caught and the
\* approach raises Exception("All raw pixel reading approaches failed")
read_raw_pixels(f, d, a) ==
    {Out(Fail("Exception"), d)} \cup
    (IF f.primary = "full"
     THEN LET rr == ReconstructSkipLarge(f.pix, f.rows, f.cols, f.bits, f.samples)
          IN  {Out(PydicomArray, Handle("full", a)),
               Out(EmptyArray, Handle("full", a)),
               Out(IF rr.kind = "raster" THEN rr ELSE Fail("Exception"),
                   Handle("full", a))}
     ELSE {})

\* first try / second try (pydicom, then reconstruction from ds.PixelData),
\* third try (specific_tags), then the manual scan of the file's bytes; raises
\* Exception("Could not extract pixel data with ultra-conservative approach")
read_ultra_conservative(f, d, a) ==
    LET ra == ReconstructSecondTry(f.pix, f.rows, f.cols, f.bits, f.samples)
        rm == ReconstructManual(f.pix, f.rows, f.cols, f.bits, f.samples)
        before == {d} \cup (IF f.primary = "full" THEN {Handle("pixel_only", a)} ELSE {})
        reread == IF f.primary = "none" THEN {} ELSE {Handle("header", a)}
    IN  (IF f.primary = "full"
         THEN {Out(PydicomArray, Handle("full", a)),
               Out(EmptyArray, Handle("full", a)),
               Out(PydicomArray, Handle("pixel_only", a)),
               Out(EmptyArray, Handle("pixel_only", a))}
              \cup (IF ra.kind = "raster" THEN {Out(ra, Handle("full", a))} ELSE {})
         ELSE {})
        \cup
        (IF rm.kind = "raster"
         THEN {Out(rm, ds) : ds \in before \cup reread}
         ELSE {Out(Fail("Exception"), ds) : ds \in before})

Approach(name, f, d, a) ==
    CASE name = "_read_with_defer_size" -> read_with_defer_size(f, d, a)
      [] name = "_read_with_force" -> read_with_force(f, d, a)
      [] name = "_read_with_specific_syntax" -> read_with_specific_syntax(f, d, a)
      [] name = "_read_with_decompression" -> read_with_decompression(f, d, a)
      [] name = "_read_raw_pixels" -> read_raw_pixels(f, d, a)
      [] name = "_read_binary_parsing" -> read_binary_parsing(f, d, a)
      [] OTHER -> read_ultra_conservative(f, d, a)

\* what an operation gave its caller; for get_pixel_array also the work the
\* call did: cascades started, approach() calls made (their number, and the
\* names of those of the last cascade), the last exception an approach raised,
\* and the path the message of a raised error names
RetWork(op, kind, val, err, cause, attempts, ncalls, calls, seen) ==
    [op |-> op, kind |-> kind, val |-> val, err |-> err, cause |-> cause,
     attempts |-> attempts, ncalls |-> ncalls, calls |-> calls, seen |-> seen,
     uid |-> "None", save |-> FALSE, path |-> "", data |-> EmptyDict,
     deidentify |-> FALSE]
Ret(op, kind, val, err, cause) ==
    RetWork(op, kind, val, err, cause, 0, 0, <<>>, NoError)
\* write_picture_uid(save): the identifier it returned, or the error it raised
RetUid(save, kind, uid, err) ==
    [Ret("write_picture_uid", kind, NoResult, err, NoError)
        EXCEPT !.uid = uid, !.save = save]
NoRet == Ret("", "", NoResult, NoError, NoError)

\* get_pixel_array's locals go out of scope when it returns or raises
LeaveLoop ==
    /\ last_error' = NoError
    /\ attempt' = 0
    /\ tier' = 0
    /\ invoked' = <<>>
    /\ attempts_run' = 0
    /\ tier_calls' = 0
    /\ observed' = NoError

\* the handle as it stays on the object once get_pixel_array is left
Settled(d) == [d EXCEPT !.att = 0]

Init ==
    /\ rc_in = [pixel_data |-> <<>>, rows |-> None, cols |-> None,
                bits |-> None, samples |-> None]
    /\ rc_site = "off"
    /\ rc_out = NoResult
    /\ file \in SpecFiles
    /\ pc = "new"
    /\ dataset = NoDataset
    /\ ds_creator = FALSE
    /\ pixel_array = NoResult
    /\ last_error = NoError
    /\ attempt = 0
    /\ tier = 0
    /\ invoked = <<>>
    /\ attempts_run = 0
    /\ tier_calls = 0
    /\ observed = NoError
    /\ picture_uid = "None"
    /\ meta_uid = "None"
    /\ metadata = EmptyDict
    /\ generated = 0
    /\ ret = NoRet
    /\ IdleScan
    /\ IdleConfig
    /\ IdleTiff
    /\ IdleExport

\* the identifier slot: PRIVATE_CREATOR, PRIVATE_GROUP, PICTURE_UID_ELEM
PRIVATE_CREATOR == "VUWindsurf"
PRIVATE_GROUP == 17
PICTURE_UID_ELEM == 4097

\* the private creator element a freshly read handle holds
CreatorIn(d, f) == d.kind \in {"header", "full"} /\ f.creator

\* Dataset.private_block(group, creator, create): the block, or KeyError when
\* the creator is not in the dataset and create is false
private_block(has_creator, create) ==
    IF has_creator \/ create THEN "block" ELSE "KeyError"

\* what a pydicom PrivateBlock offers: get_tag, add_new, item access by
\* element offset; it has no get method
PrivateBlockAttrs == {"get_tag", "add_new", "__getitem__", "__contains__", "__delitem__"}

\* PrivateBlock.get_tag(element_offset), used by add_new: offsets above 0xFF
\* raise ValueError("Element offset must be less than 256")
AnyOffset(element_offset) == TRUE

OffsetInBlock(element_offset) == element_offset <= 255

\* _get_picture_uid: except Exception: pass
UidReadCatchesKeyErrorOnly(cls) == cls = "KeyError"

UidReadCatches(cls) == ExceptException(cls) \/ cls = "KeyError"

\* _get_picture_uid: private_block(PRIVATE_GROUP, PRIVATE_CREATOR) is called
\* without create
ReadCreatesBlock == TRUE

ReadCreates == FALSE

\* _get_picture_uid on a loaded header: the identifier it assigns ("None":
\* self.picture_uid is left alone) and the exception that escapes it, if any
get_picture_uid(f) ==
    LET block == private_block(f.creator, ReadCreates)
        raised == IF block = "KeyError" THEN "KeyError"
                  ELSE IF "get" \notin PrivateBlockAttrs THEN "AttributeError"
                  ELSE ""
    IN  [uid |-> IF raised = "" THEN f.uid ELSE "None",
         escapes |-> IF raised # "" /\ ~UidReadCatches(raised) THEN raised ELSE ""]

\* METADATA_FIELDS (the fields drawn) and PHI_FIELDS
METADATA_FIELDS ==
    {"patient_name", "patient_id", "patient_birth_date", "study_description"}

PHI_FIELDS_WithoutBirthDate == {"patient_name", "patient_id"}

PHI_FIELDS == {"patient_name", "patient_id", "patient_birth_date"}

\* _get_tag_value: the element's value, None when missing, None or ''
get_tag_value(h, field) ==
    IF field \in DOMAIN h /\ h[field] # "" THEN h[field] ELSE "None"

\* f"{value[:4]}-{value[4:6]}-{value[6:8]}" for a date of 8 characters
FormatDate(value) == IF value = "19600102" THEN "1960-01-02" ELSE value

\* _extract_metadata: every field of METADATA_FIELDS, None included, dates
\* formatted for display, and the file name
extract_metadata(f) ==
    update([field \in METADATA_FIELDS |->
                LET value == get_tag_value(f.header, field)
                IN  IF field = "patient_birth_date" THEN FormatDate(value) ELSE value],
           [k \in {"source_file"} |-> "eye.dcm"])

\* DicomFile.__init__ -> _load_header: two header reads, the second re-raised;
\* then _extract_metadata and _get_picture_uid on the header
load_header ==
    /\ pc = "new"
    /\ IF file.primary = "none"
       THEN /\ pc' = "ctor_failed"
            /\ ret' = Ret("__init__", "raise", NoResult,
                          Error("ValueError", "dcmread", "", 0), NoError)
            /\ UNCHANGED <<dataset, ds_creator, picture_uid, metadata>>
       ELSE LET g == get_picture_uid(file)
            IN  /\ dataset' = Handle("header", 0)
                /\ metadata' = extract_metadata(file)
                /\ ds_creator' = (file.creator \/ ReadCreates)
                /\ picture_uid' = g.uid
                /\ IF g.escapes # ""
                   THEN /\ pc' = "ctor_failed"
                        /\ ret' = Ret("__init__", "raise", NoResult,
                                      Error(g.escapes, "_get_picture_uid", "", 0),
                                      NoError)
                   ELSE /\ pc' = "idle"
                        /\ ret' = Ret("__init__", "return", NoResult, NoError, NoError)
    /\ UNCHANGED <<recon_vars, scan_vars, cfg_vars, tiff_vars, exp_vars, file, pixel_array, loop_vars, meta_uid, generated>>

\* get_pixel_array, entry: the cached raster, or the start of attempt 1
\* except Exception as e: last_error = e
Remember(prev, e) == e

\* if self._pixel_array is None
AlwaysDecode(pa) == TRUE

CacheEmpty(pa) == pa = NoResult

get_pixel_array ==
    /\ pc = "idle"
    /\ IF CacheEmpty(pixel_array)
       THEN /\ last_error' = NoError
            /\ observed' = NoError
            /\ attempt' = 1
            /\ tier' = 1
            /\ invoked' = <<>>
            /\ attempts_run' = 1
            /\ tier_calls' = 0
            /\ pc' = "attempting"
            /\ ret' = NoRet
       ELSE /\ ret' = Ret("get_pixel_array", "return", pixel_array, NoError, NoError)
            /\ UNCHANGED <<loop_vars, pc>>
    /\ UNCHANGED <<recon_vars, scan_vars, cfg_vars, tiff_vars, exp_vars, file, dataset, ds_creator, pixel_array, uid_vars>>

\* arr is not None and arr.size > 0
Succeeded(res) == res.kind = "raster" /\ Size(res) > 0

\* get_pixel_array, one pass of the inner loop: arr = approach() and its handling
run_approach ==
    /\ pc = "attempting"
    /\ \E out \in Approach(approaches[tier], file, dataset, attempt) :
        LET name == approaches[tier]
            e == Error(out.res.why, "", name, attempt)
        IN  /\ ds_creator' = IF out.ds.att = 0 THEN ds_creator
                                               ELSE CreatorIn(out.ds, file)
            /\ IF Succeeded(out.res)
                THEN /\ pixel_array' = out.res
                     /\ dataset' = Settled(out.ds)
                     /\ ret' = RetWork("get_pixel_array", "return", out.res, NoError, NoError,
                                        attempts_run, tier_calls + 1, Append(invoked, name),
                                        NoError)
                     /\ pc' = "idle"
                     /\ LeaveLoop
                ELSE IF out.res.kind = "fail" /\ ~ExceptException(out.res.why)
                THEN /\ dataset' = Settled(out.ds)
                     /\ ret' = RetWork("get_pixel_array", "raise", NoResult, e, NoError,
                                        attempts_run, tier_calls + 1, Append(invoked, name),
                                        NoError)
                     /\ pc' = "idle"
                     /\ LeaveLoop
                     /\ UNCHANGED pixel_array
                ELSE /\ dataset' = out.ds
                     /\ last_error' = IF out.res.kind = "fail"
                                       THEN Remember(last_error, e) ELSE last_error
                     /\ observed' = IF out.res.kind = "fail" THEN e ELSE observed
                     /\ invoked' = Append(invoked, name)
                     /\ tier_calls' = tier_calls + 1
                     /\ IF tier < Len(approaches)
                        THEN tier' = tier + 1 /\ pc' = "attempting"
                        ELSE tier' = tier /\ pc' = "attempt_end"
                     /\ UNCHANGED <<pixel_array, ret, attempt, attempts_run>>
    /\ UNCHANGED <<recon_vars, scan_vars, cfg_vars, tiff_vars, exp_vars, file, uid_vars>>

\* if attempt < max_attempts
RetryAllowedOffByOne(a) == a <= max_attempts

RetryAllowed(a) == a < max_attempts

\* self.dataset = None; self._pixel_array = None
ResetKeepsHandle(d) == d

ResetDataset(d) == NoDataset

\* the reset between attempts assigns self.dataset and self._pixel_array only:
\* self.picture_uid after it
ResetClearsIdentifier(uid) == "None"

ResetIdentifier(uid) == uid

\* self.file_path of the object
file_path == "/data/eye.dcm"

\* raise Exception(f"All pixel reading attempts failed: {last_error}"): the
\* text, the path and the cause that the message of the raised error holds
ExhaustionMessage(path, cause) ==
    [text |-> "All pixel reading attempts failed", path |-> "", cause |-> cause]

\* get_pixel_array, after the inner loop: reset and next attempt, or the raise
end_attempt ==
    /\ pc = "attempt_end"
    /\ IF RetryAllowed(attempt)
       THEN /\ dataset' = ResetDataset(dataset)
            /\ ds_creator' = CreatorIn(ResetDataset(dataset), file)
            /\ pixel_array' = NoResult
            /\ picture_uid' = ResetIdentifier(picture_uid)
            /\ attempt' = attempt + 1
            /\ attempts_run' = attempts_run + 1
            /\ tier' = 1
            /\ invoked' = <<>>
            /\ pc' = "attempting"
            /\ UNCHANGED <<ret, last_error, tier_calls, observed>>
       ELSE /\ LET m == ExhaustionMessage(file_path, last_error)
                IN  ret' = [RetWork("get_pixel_array", "raise", NoResult,
                                    Error("Exception", m.text, "", 0),
                                    m.cause, attempts_run, tier_calls, invoked,
                                    observed)
                                EXCEPT !.path = m.path]
            /\ dataset' = Settled(dataset)
            /\ pc' = "idle"
            /\ LeaveLoop
            /\ UNCHANGED <<pixel_array, ds_creator, picture_uid>>
    /\ UNCHANGED <<recon_vars, scan_vars, cfg_vars, tiff_vars, exp_vars, file, meta_uid, metadata,
                   generated>>

\* the approaches list of _read_with_error_bypass
bypass_approaches ==
    <<"_read_with_defer_size", "_read_with_specific_syntax",
      "_read_with_decompression", "_read_with_force", "_read_raw_pixels">>

\* self.dataset as earlier, failed approaches of one loop may have left it
LeftBehind(f, d) == {d} \cup (IF f.primary = "full" THEN {Handle("full", 0)} ELSE {})

\* _read_with_error_bypass: decodes again whatever is cached; the first
\* approach that returns an array (an empty one too) replaces self._pixel_array
read_with_error_bypass ==
    /\ pc = "idle"
    /\ \/ \E k \in 1..Len(bypass_approaches) :
          \E d \in (IF k = 1 THEN {dataset} ELSE LeftBehind(file, dataset)) :
          \E out \in Approach(bypass_approaches[k], file, d, 0) :
             /\ out.res.kind = "raster"
             /\ pixel_array' = out.res
             /\ dataset' = out.ds
             /\ ds_creator' \in {CreatorIn(out.ds, file)} \cup
                                (IF out.ds = dataset THEN {ds_creator} ELSE {})
             /\ ret' = Ret("_read_with_error_bypass", "return", out.res, NoError, NoError)
       \/ \E d \in LeftBehind(file, dataset) :
             /\ dataset' = d
             /\ ds_creator' \in {CreatorIn(d, file)} \cup
                                (IF d = dataset THEN {ds_creator} ELSE {})
             /\ ret' = Ret("_read_with_error_bypass", "raise", NoResult,
                           Error("Exception", "All error bypass approaches failed", "", 0),
                           NoError)
             /\ UNCHANGED pixel_array
    /\ UNCHANGED <<recon_vars, scan_vars, cfg_vars, tiff_vars, exp_vars, file, pc, loop_vars, uid_vars>>

\* pydicom.uid.generate_uid(): a value never produced before
FreshUid(n) == IF n = 0 THEN "gen1" ELSE IF n = 1 THEN "gen2" ELSE "gen3"

\* generate_picture_uid
generate_picture_uid ==
    /\ pc = "idle"
    /\ generated < MaxGenerated
    /\ picture_uid' = FreshUid(generated)
    /\ generated' = generated + 1
    /\ ret' = Ret("generate_picture_uid", "return", NoResult, NoError, NoError)
    /\ UNCHANGED <<recon_vars, scan_vars, cfg_vars, tiff_vars, exp_vars, file, pc, dataset, ds_creator, pixel_array,
                   loop_vars, meta_uid, metadata>>

\* not self.dataset or not hasattr(self.dataset, 'PixelData')
NeedsReload(d, f) == ~(d.kind \in {"full", "pixel_only"} /\ f.pix # <<>>)

\* if not save: return self.picture_uid
AlwaysPersists(save) == FALSE

ReturnsEarly(save) == ~save

\* self.metadata["picture_uid"] = self.picture_uid, the statement after save_as
MetadataSetFirst(done, uid, old) == uid

MetadataUpdate(done, uid, old) == IF done THEN uid ELSE old

\* write_picture_uid(save): the identifier (generated when there is none);
\* with save, the full dataset (reloaded when the handle has no PixelData),
\* the private block, the element, save_as over the file, the metadata entry
write_picture_uid(save) ==
    /\ pc = "idle"
    /\ picture_uid # "None" \/ generated < MaxGenerated
    /\ LET uid == IF picture_uid = "None" THEN FreshUid(generated) ELSE picture_uid
           made == IF picture_uid = "None" THEN generated + 1 ELSE generated
           reload == NeedsReload(dataset, file)
           full == IF reload THEN Handle("full", 0) ELSE dataset
           held == IF reload THEN CreatorIn(full, file) ELSE ds_creator
           block == private_block(held, TRUE)
       IN  /\ picture_uid' = uid
           /\ generated' = made
           /\ IF ReturnsEarly(save)
              THEN /\ ret' = RetUid(save, "return", uid, NoError)
                   /\ UNCHANGED <<file, dataset, ds_creator, meta_uid>>
              ELSE \/ \* none of the three reload approaches could read the file
                      /\ reload
                      /\ ret' = RetUid(save, "raise", "None",
                                       Error("Exception", "Failed to load full DICOM dataset for UID writing", "", 0))
                      /\ meta_uid' = MetadataUpdate(FALSE, uid, meta_uid)
                      /\ UNCHANGED <<file, dataset, ds_creator>>
                   \/ \* block.add_new raised: the element offset is not in a block
                      /\ reload => file.primary = "full"
                      /\ ~OffsetInBlock(PICTURE_UID_ELEM)
                      /\ dataset' = full
                      /\ ds_creator' = (block = "block")
                      /\ ret' = RetUid(save, "raise", "None",
                                       Error("ValueError", "Element offset must be less than 256", "", 0))
                      /\ meta_uid' = MetadataUpdate(FALSE, uid, meta_uid)
                      /\ UNCHANGED file
                   \/ \* element added, save_as wrote the dataset over the file
                      /\ reload => file.primary = "full"
                      /\ OffsetInBlock(PICTURE_UID_ELEM)
                      /\ dataset' = full
                      /\ ds_creator' = (block = "block")
                      /\ file' = [file EXCEPT !.creator = TRUE, !.uid = uid]
                      /\ meta_uid' = MetadataUpdate(TRUE, uid, meta_uid)
                      /\ ret' = RetUid(save, "return", uid, NoError)
                   \/ \* element added, save_as raised while rewriting the file in place
                      /\ reload => file.primary = "full"
                      /\ OffsetInBlock(PICTURE_UID_ELEM)
                      /\ dataset' = full
                      /\ ds_creator' = (block = "block")
                      /\ \E t \in BOOLEAN :
                            file' = IF t THEN [file EXCEPT !.torn = TRUE] ELSE file
                      /\ meta_uid' = MetadataUpdate(FALSE, uid, meta_uid)
                      /\ ret' = RetUid(save, "raise", "None",
                                       Error("OSError", "save_as", "", 0))
    /\ UNCHANGED <<recon_vars, scan_vars, cfg_vars, tiff_vars, exp_vars, pc, pixel_array, loop_vars,
                   metadata>>

\* get_metadata_for_export(deidentify): a copy of self.metadata with the
\* identifier, without the PHI fields and marked when deidentify is set
get_metadata_for_export(deidentify) ==
    /\ pc = "idle"
    /\ LET copy == IF meta_uid # "None"
                   THEN update(metadata, [k \in {"picture_uid"} |-> meta_uid])
                   ELSE metadata
           with_uid == IF picture_uid # "None"
                       THEN update(copy, [k \in {"picture_uid"} |-> picture_uid])
                       ELSE copy
           export_data == IF deidentify
                          THEN update(pop_all(with_uid, PHI_FIELDS),
                                      [k \in {"deidentified"} |-> "True"])
                          ELSE with_uid
       IN  ret' = [Ret("get_metadata_for_export", "return", NoResult, NoError, NoError)
                        EXCEPT !.data = export_data, !.deidentify = deidentify]
    /\ UNCHANGED <<recon_vars, scan_vars, cfg_vars, tiff_vars, exp_vars, file, pc, dataset,
                   ds_creator, pixel_array, loop_vars, uid_vars>>

Next ==
    \/ load_header
    \/ get_pixel_array
    \/ run_approach
    \/ end_attempt
    \/ read_with_error_bypass
    \/ generate_picture_uid
    \/ \E save \in BOOLEAN : write_picture_uid(save)
    \/ \E deidentify \in BOOLEAN : get_metadata_for_export(deidentify)

Spec == Init /\ [][Next]_vars

-----------------------------------------------------------------------------
(* Properties of get_pixel_array and of the object (checked under Spec) *)

InCall == pc \in {"attempting", "attempt_end"}

Exhausted == ret.op = "get_pixel_array" /\ ret.kind = "raise"

Decoded == ret.op = "get_pixel_array" /\ ret.kind = "return" /\ ret.ncalls > 0

\* C1: one call of get_pixel_array starts the cascade at most 3 times, a new
\* attempt only ever being the next one up to the 3rd; the call fails only
\* after the 3rd cascade has failed, and the error it raises is the exhaustion
\* error carrying the last exception an approach raised.
C1_AtMostThreeAttempts ==
    /\ attempts_run <= 3
    /\ InCall => (attempt = attempts_run /\ attempt \in 1..3)
    /\ pc = "attempt_end" => Len(invoked) = 7
    /\ Exhausted =>
        /\ ret.attempts = 3
        /\ ret.ncalls = 3 * 7
        /\ ret.err.msg = "All pixel reading attempts failed"
        /\ ret.cause = ret.seen

\* a call that ran three cascades and raised, tiers having raised in each
C1_Witness ==
    /\ Exhausted
    /\ ret.attempts = 3
    /\ ret.cause.att = 3
    /\ ret.cause.by = "_read_ultra_conservative"

\* the priority order of the tiers
PriorityOrder ==
    <<"_read_with_defer_size", "_read_with_force", "_read_with_specific_syntax",
      "_read_with_decompression", "_read_raw_pixels", "_read_binary_parsing",
      "_read_ultra_conservative">>

IsPrefix(s, t) == Len(s) <= Len(t) /\ s = SubSeq(t, 1, Len(s))

\* C2: within an attempt the tiers are called in the fixed priority order,
\* each at most once; while the cascade runs no tier has yet returned a
\* non-empty raster (the first one that does ends the call, with that raster);
\* an attempt is over as failed only when all seven tiers have been called.
C2_CascadeOrder ==
    /\ InCall => (IsPrefix(invoked, PriorityOrder) /\ pixel_array = NoResult)
    /\ pc = "attempting" =>
            (tier = Len(invoked) + 1 /\ approaches[tier] = PriorityOrder[tier])
    /\ pc = "attempt_end" => invoked = PriorityOrder
    /\ Decoded =>
        /\ IsPrefix(ret.calls, PriorityOrder)
        /\ Size(ret.val) > 0
        /\ pc = "idle"
    /\ Exhausted => ret.calls = PriorityOrder

\* the fifth tier produced the raster after four tiers had failed
C2_Witness ==
    /\ Decoded
    /\ Len(ret.calls) = 5
    /\ ret.attempts = 2
    /\ pc = "idle"

\* C3: the only error get_pixel_array hands to its caller is the exhaustion
\* error, raised after every tier of every attempt has been called; an
\* exception raised by a tier never reaches the caller, the cascade goes on
\* with the next tier.
C3_OnlyExhaustionEscapes ==
    /\ Exhausted =>
        /\ ret.err = Error("Exception", "All pixel reading attempts failed", "", 0)
        /\ ret.attempts = max_attempts
        /\ ret.ncalls = max_attempts * Len(approaches)
    /\ ret.op = "get_pixel_array" => ret.err.by = ""
    /\ (InCall /\ observed # NoError) => last_error # NoError

\* six tiers raised (pydicom cannot read the pixel data), the seventh decoded
C3_Witness ==
    /\ Decoded
    /\ file.primary = "header"
    /\ Len(ret.calls) = 7
    /\ ret.attempts = 1

\* C4: a raster cached by a successful tier stays: a later get_pixel_array
\* returns that raster without calling any tier, and no operation but the
\* forced re-decode (_read_with_error_bypass) clears or replaces it.
C4_CacheStable ==
    [][/\ (ret'.op = "get_pixel_array" /\ ret'.kind = "return")
            => pixel_array' = ret'.val
       /\ (pixel_array # NoResult /\ ret'.op # "_read_with_error_bypass")
            => /\ pixel_array' = pixel_array
               /\ pc' = "idle"
               /\ ret'.op = "get_pixel_array"
                    => (ret'.kind = "return" /\ ret'.val = pixel_array
                        /\ ret'.ncalls = 0)]_vars

\* the cached raster was returned again after an identifier was assigned
C4_Witness ==
    /\ ret.op = "get_pixel_array"
    /\ ret.kind = "return"
    /\ ret.ncalls = 0
    /\ Size(ret.val) > 0
    /\ picture_uid # "None"

\* C5 (as claimed): every attempt, the first included, is entered with no
\* container handle on the object.
C5_EveryAttemptStartsClean ==
    (pc = "attempting" /\ invoked = <<>>) => dataset = NoDataset

\* C5 (amended): every attempt after the first is entered with the handle and
\* the cached raster cleared, and during a call the object never holds a
\* handle made by an earlier attempt of that call.
C5_RetryStartsClean ==
    /\ (pc = "attempting" /\ invoked = <<>> /\ attempt > 1)
            => (dataset = NoDataset /\ pixel_array = NoResult)
    /\ (InCall /\ attempt > 1) => (dataset = NoDataset \/ dataset.att = attempt)
    /\ (InCall /\ attempt = 1) => dataset.att \in {0, 1}

\* the second attempt starts after a first attempt that left a handle behind
C5_Witness ==
    /\ pc = "attempting"
    /\ attempt = 2
    /\ invoked = <<>>
    /\ file.primary = "full"
    /\ last_error.cls = "RuntimeError"
    /\ dataset = NoDataset

\* the manual scan finds usable geometry and enough pixel data
ScanUsable(f) ==
    /\ f.rows \notin {None, 0}
    /\ f.cols \notin {None, 0}
    /\ f.bits \in {8, 16}
    /\ Len(f.pix) >= f.rows * f.cols * (IF f.samples = None THEN 1 ELSE f.samples)
                        * (f.bits \div 8)

\* C6 (as claimed): for a file the manual scan can parse and the primary
\* decoder cannot open at all, the caller can open the file and its request
\* for the pixels yields a raster.
C6_ManualScanCompensates ==
    (file.primary = "none" /\ ScanUsable(file)) =>
        /\ pc # "ctor_failed"
        /\ ret.op = "get_pixel_array" => ret.kind = "return"

\* C21: the error get_pixel_array raises after exhaustion names the path of
\* the file and carries the last underlying cause, which is the error of the
\* last tier that raised and is never empty.
C21_ExhaustionReportsPathAndCause ==
    Exhausted =>
        /\ ret.path = file_path
        /\ ret.cause = ret.seen
        /\ ret.cause # NoError

\* the exhaustion error of a call all of whose tiers returned empty arrays
C21_CauseEmpty == Exhausted /\ ret.attempts = 3 /\ ret.cause = NoError

-----------------------------------------------------------------------------
(* Properties of the identifier lifecycle (checked under Spec) *)

WriteStep == ret'.op = "write_picture_uid"

\* C13: write_picture_uid(save=False) returns the identifier, generating one
\* first when the object has none, and changes nothing else: the file on
\* storage, the container handle (no reparse, no private block created in it),
\* the metadata and the cached raster are as before.
C13_UnsavedWriteOnlyReturns ==
    [][(WriteStep /\ ~ret'.save) =>
            /\ ret'.kind = "return"
            /\ ret'.uid = picture_uid'
            /\ ret'.uid # "None"
            /\ picture_uid # "None" => (picture_uid' = picture_uid /\ generated' = generated)
            /\ picture_uid = "None" =>
                    (ret'.uid = FreshUid(generated) /\ generated' = generated + 1)
            /\ file' = file
            /\ dataset' = dataset
            /\ ds_creator' = ds_creator
            /\ meta_uid' = meta_uid
            /\ pixel_array' = pixel_array]_vars

\* an unsaved write generated the identifier of an object that held a header
C13_Witness ==
    /\ ret.op = "write_picture_uid"
    /\ ~ret.save
    /\ ret.uid = "gen1"
    /\ dataset = Handle("header", 0)
    /\ ~ds_creator
    /\ file.uid = "None"
    /\ meta_uid = "None"

\* C14 (as claimed): every persisted write of identifier X that could load the
\* full dataset returns and leaves X as the persisted identifier of the file,
\* the first write and a repeated one alike.
C14_PersistedWriteIdempotent ==
    (/\ ret.op = "write_picture_uid"
     /\ ret.save
     /\ ret.err.msg # "Failed to load full DICOM dataset for UID writing")
        => /\ ret.kind = "return"
           /\ file.uid = picture_uid
           /\ file.creator

\* C15 (as claimed): opening a file whose private block stores identifier X
\* gives an object with picture_uid = X.
C15_IdentifierReadBack ==
    (ret.op = "__init__" /\ ret.kind = "return" /\ file.uid # "None")
        => picture_uid = file.uid

\* C16: reading the identifier never fails: construction raises only when the
\* header cannot be read at all, never because of the identifier read; after
\* construction of an object on a file with no private block the identifier
\* is absent, and in every case it is absent or the stored one.
C16_ReadNeverFails ==
    /\ (ret.op = "__init__" /\ ret.kind = "raise")
            => (file.primary = "none" /\ ret.err.msg = "dcmread")
    /\ pc = "ctor_failed" => file.primary = "none"
    /\ (ret.op = "__init__" /\ ret.kind = "return")
            => /\ pc = "idle"
               /\ picture_uid \in {"None", file.uid}
               /\ ~file.creator => picture_uid = "None"

\* an object was constructed on a file that has no private block
C16_Witness ==
    /\ ret.op = "__init__"
    /\ ret.kind = "return"
    /\ ~file.creator
    /\ picture_uid = "None"
    /\ pc = "idle"

\* C17: the identifier read of construction mutates nothing: the file on
\* storage is as before, and the handle holds the private creator element
\* exactly when the file does (the read creates no block).
C17_ReadNeverMutates ==
    [][pc = "new" =>
            /\ file' = file
            /\ pc' = "idle" => (ds_creator' = file.creator /\ meta_uid' = "None")]_vars

\* the identifier read ran on a file without the creator element
C17_Witness ==
    /\ ret.op = "__init__"
    /\ pc = "idle"
    /\ dataset = Handle("header", 0)
    /\ ~ds_creator
    /\ ~file.creator
    /\ file.primary = "full"

C19_WriteFailuresPropagate ==
    [][(WriteStep /\ ret'.save) =>
            /\ (NeedsReload(dataset, file) /\ file.primary # "full")
                    => (ret'.kind = "raise" /\ ret'.err.cls = "Exception")
            /\ ret'.kind = "raise" =>
                    (ret'.err # NoError /\ ret'.uid = "None" /\ meta_uid' = meta_uid)
            /\ ret'.kind = "return" =>
                    (file'.uid = ret'.uid /\ meta_uid' = ret'.uid)]_vars

\* a persisted write raised because no reload approach could read the file
C19_Witness ==
    /\ ret.op = "write_picture_uid"
    /\ ret.save
    /\ ret.kind = "raise"
    /\ ret.err.msg = "Failed to load full DICOM dataset for UID writing"
    /\ file.primary = "header"
    /\ meta_uid = "None"
    /\ picture_uid # "None"

\* a step of get_pixel_array: its entry, an approach() call, the end of an attempt
DecodeStep ==
    \/ pc \in {"attempting", "attempt_end"}
    \/ pc = "idle" /\ (pc' = "attempting" \/ ret'.op = "get_pixel_array")

\* C27: no step of get_pixel_array, whether it returns the cached raster,
\* decodes, retries or ends in exhaustion, changes picture_uid, the metadata
\* or the identifiers generated; and what an identifier write gives
\* (returned identifier, picture_uid afterwards, generation or not) depends
\* only on save and on picture_uid, not on what decoding left on the object.
C27_DecodeLeavesIdentifierState ==
    [][/\ DecodeStep =>
            /\ picture_uid' = picture_uid
            /\ meta_uid' = meta_uid
            /\ metadata' = metadata
            /\ generated' = generated
       /\ WriteStep =>
            /\ picture_uid' = IF picture_uid = "None" THEN FreshUid(generated)
                                                      ELSE picture_uid
            /\ ret'.kind = "return" => ret'.uid = picture_uid'
            /\ ret'.kind = IF ret'.save THEN "raise" ELSE "return"]_vars

\* an identifier generated before decoding is still the object's identifier
\* after a get_pixel_array that ran all three attempts and raised
C27_Witness ==
    /\ Exhausted
    /\ ret.attempts = 3
    /\ picture_uid = "gen1"
    /\ metadata["patient_name"] = "Doe^Jane"

\* C30: get_metadata_for_export(deidentify=True) returns a record without
\* patient_name, patient_id and patient_birth_date and with deidentified set;
\* the call leaves the object's metadata as it was, and with
\* deidentify=False the record holds the three fields as the object does.
C30_DeidentifiedExportHasNoPHI ==
    [][ret'.op = "get_metadata_for_export" =>
            /\ metadata' = metadata
            /\ meta_uid' = meta_uid
            /\ picture_uid' = picture_uid
            /\ ret'.deidentify =>
                    /\ DOMAIN ret'.data \cap
                            {"patient_name", "patient_id", "patient_birth_date"} = {}
                    /\ ret'.data["deidentified"] = "True"
            /\ ~ret'.deidentify =>
                    \A f \in {"patient_name", "patient_id", "patient_birth_date"} :
                        f \in DOMAIN ret'.data /\ ret'.data[f] = metadata[f]]_vars

\* after a de-identified export of an object holding the three PHI fields,
\* the object still holds them
C30_Witness ==
    /\ ret.op = "get_metadata_for_export"
    /\ ret.deidentify
    /\ "patient_name" \notin DOMAIN ret.data
    /\ "study_description" \in DOMAIN ret.data
    /\ metadata["patient_name"] = "Doe^Jane"
    /\ metadata["patient_id"] = "12345"
    /\ metadata["patient_birth_date"] = "1960-01-02"

-----------------------------------------------------------------------------
(* SpecConfig: pydicom.config under two threads, each decoding its own file *)

\* the two files decoded concurrently, one thread each
Threads == {"file1", "file2"}

\* What the installation provides: JPEG_SUPPORT (pylibjpeg imported at module
\* load), whether pydicom.pixel_data_handlers gives numpy_handler and
\* pillow_handler, whether it gives pylibjpeg_handler, and whether
\* pydicom.config has enforce_valid_values before anything assigned it
Environments ==
    [JPEG_SUPPORT : BOOLEAN, handlers : BOOLEAN, pylibjpeg_handler : BOOLEAN,
     enforce_valid_values : {"False", "absent"}]

\* pydicom.config as the library ships it
LibraryConfig(e) ==
    [pixel_data_handlers |-> <<"library default">>,
     enforce_valid_values |-> e.enforce_valid_values,
     convert_wrong_length_to_UN |-> "False",
     handlers_configured |-> "absent"]

\* handlers = []; pylibjpeg_handler first when JPEG_SUPPORT and importable;
\* handlers.extend([numpy_handler, pillow_handler])
Handlers(e) ==
    (IF e.JPEG_SUPPORT /\ e.pylibjpeg_handler THEN <<"pylibjpeg_handler">> ELSE <<>>)
        \o <<"numpy_handler", "pillow_handler">>

\* getattr(pydicom.config, name, default)
GetattrIgnoresConfig(current, default) == default

Getattr(current, default) == IF current = "absent" THEN default ELSE current

\* a thread between two calls, and a thread at a position of a call
Idle == [pc |-> "idle", op |-> "", attempt |-> 0, old_handlers |-> <<>>,
         old_enforce |-> "", old_convert |-> ""]

InitConfig ==
    /\ env \in Environments
    /\ config = LibraryConfig(env)
    /\ ENV_INITIALIZED = FALSE
    /\ th = [t \in Threads |-> Idle]
    /\ IdleRecon
    /\ IdleObject
    /\ IdleScan
    /\ IdleTiff
    /\ IdleExport

Goto(t, pc2) == th' = [th EXCEPT ![t].pc = pc2]

\* a thread calls get_pixel_array (cache empty) or write_picture_uid(save=True,
\* reload needed): both start with _prewarm_dicom_reading
call(t) ==
    /\ th[t].pc = "idle"
    /\ \E op \in {"get_pixel_array", "write_picture_uid"} :
            th' = [th EXCEPT ![t] = [Idle EXCEPT !.pc = "init_check", !.op = op]]
    /\ UNCHANGED <<config, ENV_INITIALIZED, env>>

\* initialize_dicom_environment, statement by statement
initialize_dicom_environment(t) ==
    /\ CASE th[t].pc = "init_check" ->
                /\ Goto(t, IF ENV_INITIALIZED \/ ~env.handlers
                            THEN "prewarm_import" ELSE "init_handlers")
                /\ UNCHANGED <<config, ENV_INITIALIZED>>
          [] th[t].pc = "init_handlers" ->
                /\ config' = [config EXCEPT !.pixel_data_handlers = Handlers(env)]
                /\ Goto(t, "init_enforce")
                /\ UNCHANGED ENV_INITIALIZED
          [] th[t].pc = "init_enforce" ->
                /\ config' = [config EXCEPT !.enforce_valid_values = "False"]
                /\ Goto(t, "init_convert")
                /\ UNCHANGED ENV_INITIALIZED
          [] th[t].pc = "init_convert" ->
                /\ config' = [config EXCEPT !.convert_wrong_length_to_UN = "True"]
                /\ Goto(t, "init_done")
                /\ UNCHANGED ENV_INITIALIZED
          [] th[t].pc = "init_done" ->
                /\ ENV_INITIALIZED' = TRUE
                /\ Goto(t, "prewarm_import")
                /\ UNCHANGED config
          [] OTHER -> FALSE
    /\ UNCHANGED env

\* _prewarm_dicom_reading after the call of initialize_dicom_environment, and
\* the attempt loop of get_pixel_array around the tiers
prewarm_dicom_reading(t) ==
    /\ CASE th[t].pc = "prewarm_import" ->
                /\ Goto(t, IF env.handlers /\ config.handlers_configured # "True"
                            THEN "prewarm_handlers" ELSE "tiers")
                /\ UNCHANGED config
          [] th[t].pc = "prewarm_handlers" ->
                /\ config' = [config EXCEPT !.pixel_data_handlers = Handlers(env)]
                /\ Goto(t, "prewarm_flag")
          [] th[t].pc = "prewarm_flag" ->
                /\ config' = [config EXCEPT !.handlers_configured = "True"]
                /\ Goto(t, "tiers")
          [] th[t].pc = "tiers" ->
                /\ th' = [th EXCEPT ![t].pc = IF th[t].op = "get_pixel_array"
                                               THEN "specific_syntax" ELSE "return",
                                     ![t].attempt = 1]
                /\ UNCHANGED config
          [] th[t].pc = "attempt_failed" ->
                /\ th' = [th EXCEPT ![t].pc = IF th[t].attempt < max_attempts
                                               THEN "specific_syntax" ELSE "return",
                                     ![t].attempt = th[t].attempt + 1]
                /\ UNCHANGED config
          [] th[t].pc = "return" ->
                /\ th' = [th EXCEPT ![t] = Idle]
                /\ UNCHANGED config
          [] OTHER -> FALSE
    /\ UNCHANGED <<ENV_INITIALIZED, env>>

\* _read_with_specific_syntax: pydicom.config.pixel_data_handlers = handlers,
\* then the read, which ends the cascade when it decodes
read_with_specific_syntax_config(t) ==
    /\ th[t].pc = "specific_syntax"
    /\ config' = IF env.handlers
                  THEN [config EXCEPT !.pixel_data_handlers = Handlers(env)]
                  ELSE config
    /\ \E decoded \in BOOLEAN :
            Goto(t, IF decoded THEN "return" ELSE "binary_old_enforce")
    /\ UNCHANGED <<ENV_INITIALIZED, env>>

\* _read_binary_parsing: save, set, dcmread, restore in finally; the cascade
\* goes on to _read_ultra_conservative when the read raised
read_binary_parsing_config(t) ==
    /\ CASE th[t].pc = "binary_old_enforce" ->
                /\ th' = [th EXCEPT ![t].pc = "binary_old_convert",
                                     ![t].old_enforce =
                                        Getattr(config.enforce_valid_values, "True")]
                /\ UNCHANGED config
          [] th[t].pc = "binary_old_convert" ->
                /\ th' = [th EXCEPT ![t].pc = "binary_set_enforce",
                                     ![t].old_convert =
                                        Getattr(config.convert_wrong_length_to_UN, "False")]
                /\ UNCHANGED config
          [] th[t].pc = "binary_set_enforce" ->
                /\ config' = [config EXCEPT !.enforce_valid_values = "False"]
                /\ Goto(t, "binary_set_convert")
          [] th[t].pc = "binary_set_convert" ->
                /\ config' = [config EXCEPT !.convert_wrong_length_to_UN = "True"]
                /\ Goto(t, "binary_dcmread")
          [] th[t].pc = "binary_dcmread" ->
                /\ Goto(t, "binary_restore_enforce")
                /\ UNCHANGED config
          [] th[t].pc = "binary_restore_enforce" ->
                /\ config' = [config EXCEPT !.enforce_valid_values = th[t].old_enforce]
                /\ Goto(t, "binary_restore_convert")
          [] th[t].pc = "binary_restore_convert" ->
                /\ config' = [config EXCEPT
                                !.convert_wrong_length_to_UN = th[t].old_convert]
                /\ \E decoded \in BOOLEAN :
                        Goto(t, IF decoded THEN "return" ELSE "ultra_import")
          [] OTHER -> FALSE
    /\ UNCHANGED <<ENV_INITIALIZED, env>>

\* _read_ultra_conservative, first try: import, save, set, dcmread, restore;
\* the rest of the tier (second try, manual scan) leaves pydicom.config alone
read_ultra_conservative_config(t) ==
    /\ CASE th[t].pc = "ultra_import" ->
                /\ Goto(t, IF env.handlers /\ env.pylibjpeg_handler
                            THEN "ultra_old_handlers" ELSE "ultra_rest")
                /\ UNCHANGED config
          [] th[t].pc = "ultra_old_handlers" ->
                /\ th' = [th EXCEPT ![t].pc = "ultra_old_enforce",
                                     ![t].old_handlers = config.pixel_data_handlers]
                /\ UNCHANGED config
          [] th[t].pc = "ultra_old_enforce" ->
                /\ th' = [th EXCEPT ![t].pc = "ultra_old_convert",
                                     ![t].old_enforce =
                                        Getattr(config.enforce_valid_values, "True")]
                /\ UNCHANGED config
          [] th[t].pc = "ultra_old_convert" ->
                /\ th' = [th EXCEPT ![t].pc = "ultra_set_handlers",
                                     ![t].old_convert =
                                        Getattr(config.convert_wrong_length_to_UN, "False")]
                /\ UNCHANGED config
          [] th[t].pc = "ultra_set_handlers" ->
                /\ config' = [config EXCEPT !.pixel_data_handlers =
                                (IF env.JPEG_SUPPORT THEN <<"pylibjpeg_handler">> ELSE <<>>)
                                    \o <<"numpy_handler", "pillow_handler">>]
                /\ Goto(t, "ultra_set_enforce")
          [] th[t].pc = "ultra_set_enforce" ->
                /\ config' = [config EXCEPT !.enforce_valid_values = "False"]
                /\ Goto(t, "ultra_set_convert")
          [] th[t].pc = "ultra_set_convert" ->
                /\ config' = [config EXCEPT !.convert_wrong_length_to_UN = "True"]
                /\ Goto(t, "ultra_dcmread")
          [] th[t].pc = "ultra_dcmread" ->
                /\ Goto(t, "ultra_restore_handlers")
                /\ UNCHANGED config
          [] th[t].pc = "ultra_restore_handlers" ->
                /\ config' = [config EXCEPT !.pixel_data_handlers = th[t].old_handlers]
                /\ Goto(t, "ultra_restore_enforce")
          [] th[t].pc = "ultra_restore_enforce" ->
                /\ config' = [config EXCEPT !.enforce_valid_values = th[t].old_enforce]
                /\ Goto(t, "ultra_restore_convert")
          [] th[t].pc = "ultra_restore_convert" ->
                /\ config' = [config EXCEPT
                                !.convert_wrong_length_to_UN = th[t].old_convert]
                /\ \E decoded \in BOOLEAN :
                        Goto(t, IF decoded THEN "return" ELSE "ultra_rest")
          [] th[t].pc = "ultra_rest" ->
                /\ \E decoded \in BOOLEAN :
                        Goto(t, IF decoded THEN "return" ELSE "attempt_failed")
                /\ UNCHANGED config
          [] OTHER -> FALSE
    /\ UNCHANGED <<ENV_INITIALIZED, env>>

NextConfig ==
    /\ \E t \in Threads :
            \/ call(t)
            \/ initialize_dicom_environment(t)
            \/ prewarm_dicom_reading(t)
            \/ read_with_specific_syntax_config(t)
            \/ read_binary_parsing_config(t)
            \/ read_ultra_conservative_config(t)
    /\ UNCHANGED <<recon_vars, obj_vars, scan_vars, tiff_vars, exp_vars>>

SpecConfig == InitConfig /\ [][NextConfig]_vars

\* the three attributes of pydicom.config the decoding reads
Settings(c) ==
    <<c.pixel_data_handlers, c.enforce_valid_values, c.convert_wrong_length_to_UN>>

-----------------------------------------------------------------------------
(* SpecTiff: TIFFReader.get_metadata over drawn metadata sources *)

\* the fields drawn (two of DICOMISH_FIELDS, the two an XMP packet can give)
TiffFields == {"PatientName", "StudyDescription"}

DICOMISH_FIELDS == TiffFields \cup {"ImageWidth", "ImageHeight"}

\* What storage holds: the XMP packet (property values are non-empty), whether
\* libxmp is installed, the JSON object of the ImageDescription tag, the
\* sidecar <basename>.json and the matching record of metadata.jsonl. Each
\* value names the source it came from; JSON values can be the empty string.
TiffSources ==
    [xmp : Dicts(TiffFields, {"xmp"}),
     HAS_XMP : BOOLEAN,
     tags : Dicts(TiffFields, {"tags", ""}),
     sidecar : Dicts(TiffFields, {"sidecar", ""}),
     jsonl : Dicts(TiffFields, {"jsonl", ""})]

InitTiff ==
    /\ tf_src \in TiffSources
    /\ tf_meta = EmptyDict
    /\ tf_ret = EmptyDict
    /\ IdleRecon
    /\ IdleObject
    /\ IdleScan
    /\ IdleConfig
    /\ IdleExport

\* _read_xmp_packet: nothing without libxmp
read_xmp_packet(src) == IF src.HAS_XMP THEN src.xmp ELSE EmptyDict

\* _read_tiff_tags: the JSON object of tag 270 merged in; width and height of
\* the first page by setdefault (tifffile)
read_tiff_tags(src) ==
    setdefault(setdefault(src.tags, "ImageWidth", "w"), "ImageHeight", "h")

read_sidecar_json(src) == src.sidecar

read_combined_jsonl(src) == src.jsonl

\* _normalize for the keys drawn: pass-through of the DICOMISH_FIELDS whose
\* value is not None or "", then SourceFile
normalize(meta) ==
    setdefault([k \in {f \in DICOMISH_FIELDS \cap DOMAIN meta : meta[f] # ""} |-> meta[k]],
               "SourceFile", "eye.tiff")

\* if d: merged.update(d)
Merge(merged, d) == IF d # EmptyDict THEN update(merged, d) ELSE merged

\* get_metadata: the cached dict, or the four sources merged in the order
\* XMP, tags, sidecar, metadata.jsonl, width/height, _normalize
get_metadata ==
    /\ IF tf_meta # EmptyDict
       THEN /\ tf_ret' = tf_meta
            /\ UNCHANGED tf_meta
       ELSE LET m1 == Merge(EmptyDict, read_xmp_packet(tf_src))
                m2 == Merge(m1, read_tiff_tags(tf_src))
                m3 == Merge(m2, read_sidecar_json(tf_src))
                m4 == Merge(m3, read_combined_jsonl(tf_src))
                m5 == setdefault(setdefault(m4, "ImageWidth", "w"), "ImageHeight", "h")
                out == normalize(m5)
            IN  /\ tf_meta' = out
                /\ tf_ret' = out
    /\ UNCHANGED <<tf_src, recon_vars, obj_vars, scan_vars, cfg_vars, exp_vars>>

NextTiff == get_metadata

SpecTiff == InitTiff /\ [][NextTiff]_vars

\* the sources in the documented order of precedence, as what each supplies
Supplied(src) ==
    <<read_xmp_packet(src), src.tags, src.sidecar, src.jsonl>>

\* the source of highest documented precedence that supplies field f (0: none)
FirstSupplier(src, f) ==
    LET S == {i \in 1..4 : f \in DOMAIN Supplied(src)[i]}
    IN  IF S = {} THEN 0 ELSE CHOOSE i \in S : \A j \in S : i <= j

\* C22: for every field, get_metadata returns the value of the source of
\* highest documented precedence that supplies it: XMP over TIFF tags over
\* sidecar JSON over metadata.jsonl.
C22_DocumentedPrecedence ==
    tf_ret # EmptyDict =>
        \A f \in TiffFields :
            LET i == FirstSupplier(tf_src, f)
            IN  i # 0 /\ Supplied(tf_src)[i][f] # ""
                    => f \in DOMAIN tf_ret /\ tf_ret[f] = Supplied(tf_src)[i][f]

\* XMP and metadata.jsonl both supply PatientName and the jsonl value is returned
C22_JsonlOverridesXmp ==
    /\ tf_src.HAS_XMP
    /\ "PatientName" \in DOMAIN tf_src.xmp
    /\ "PatientName" \in DOMAIN tf_ret
    /\ tf_ret["PatientName"] = "jsonl"

-----------------------------------------------------------------------------
(* SpecExport: Exporter.bulk_export over a directory of loaded DicomFile objects *)

\* What a loaded file is for the export: whether get_pixel_array decodes it,
\* whether the TIFF of its raster can be written, the identifier the object
\* holds (None, or one generated earlier in the session), and whether the
\* container on storage has been rewritten
ExportFiles ==
    [decodes : BOOLEAN, saves : BOOLEAN, picture_uid : {"None", "held"},
     cached : {FALSE}, modified : {FALSE}]

Directories == UNION {[1..n -> ExportFiles] : n \in 0..MaxFiles}

\* the arguments of the call: write_uids, and what progress_callback does
ExportCalls == [write_uids : BOOLEAN, progress_callback : {"None", "returns", "raises"}]

InitExport ==
    /\ ex_dir \in Directories
    /\ \E c \in ExportCalls :
            ex_run = [write_uids |-> c.write_uids,
                      progress_callback |-> c.progress_callback,
                      pc |-> "loop", i |-> 1, images |-> <<>>, errors |-> <<>>,
                      metadata |-> "None", generated |-> 0]
    /\ ex_log = <<>>
    /\ IdleRecon
    /\ IdleObject
    /\ IdleScan
    /\ IdleConfig
    /\ IdleTiff

\* if not dicom_file.picture_uid
AlwaysNeedsUid(uid) == TRUE

NeedsUid(uid) == uid = "None"

\* except Exception as e: results["errors"].append(error_msg)
DropError(errors, e) == errors

RecordError(errors, e) == Append(errors, e)

\* One iteration of the for loop, as the calls it makes one after the other:
\* each step is [ops, f, generated, raised] with the calls made so far, the
\* file object and storage after them, and the exception that ended the try
ExportStep(ops, f, made, raised) ==
    [ops |-> ops, f |-> f, generated |-> made, raised |-> raised]

\* progress_callback(i + 1, total_files, ...)
CallProgress(st, callback) ==
    IF callback = "None" THEN st
    ELSE [st EXCEPT !.ops = Append(@, "progress_callback"),
                    !.raised = IF callback = "raises" THEN "progress_callback" ELSE ""]

\* dicom_file.get_pixel_array(): the raster, cached on the object, or the
\* exhaustion error
CallGetPixelArray(st) ==
    IF st.raised # "" THEN st
    ELSE [st EXCEPT !.ops = Append(@, "get_pixel_array"),
                    !.f.cached = st.f.cached \/ st.f.decodes,
                    !.raised = IF st.f.cached \/ st.f.decodes THEN ""
                               ELSE "All pixel reading attempts failed"]

\* dicom_file.generate_picture_uid()
CallGenerate(st) ==
    [st EXCEPT !.ops = Append(@, "generate_picture_uid"),
               !.f.picture_uid = FreshUid(st.generated),
               !.generated = @ + 1]

\* dicom_file.write_picture_uid(save=True): block.add_new raises unless the
\* element offset is one of a private block; otherwise save_as rewrites the file
CallWrite(st) ==
    [st EXCEPT !.ops = Append(@, "write_picture_uid"),
               !.f.modified = st.f.modified \/ OffsetInBlock(PICTURE_UID_ELEM),
               !.raised = IF OffsetInBlock(PICTURE_UID_ELEM) THEN ""
                          ELSE "Element offset must be less than 256"]

\* if not dicom_file.picture_uid: generate_picture_uid();
\*     if write_uids: write_picture_uid(save=True)
EnsureUid(st, write_uids) ==
    IF st.raised # "" \/ ~NeedsUid(st.f.picture_uid) THEN st
    ELSE IF write_uids THEN CallWrite(CallGenerate(st)) ELSE CallGenerate(st)

\* export_single_image: the identifier if there is none, then export_image
\* (get_pixel_array, Image.fromarray, image.save)
export_single_image(st) ==
    IF st.raised # "" THEN st
    ELSE LET g == IF st.f.picture_uid = "None" THEN CallGenerate(st) ELSE st
             a == CallGetPixelArray([g EXCEPT !.ops = Append(@, "export_single_image")])
         IN  IF a.raised # "" THEN a
             ELSE [a EXCEPT !.raised = IF a.f.saves THEN "" ELSE "image.save"]

\* bulk_export, one iteration of the loop over dicom_directory.dicom_files
process_file ==
    /\ ex_run.pc = "loop"
    /\ ex_run.i <= Len(ex_dir)
    /\ LET i == ex_run.i
           st0 == ExportStep(<<>>, ex_dir[i], ex_run.generated, "")
           st1 == CallProgress(st0, ex_run.progress_callback)
           st2 == CallGetPixelArray(st1)
           st3 == EnsureUid(st2, ex_run.write_uids)
           st4 == export_single_image(st3)
       IN  /\ ex_dir' = [ex_dir EXCEPT ![i] = st4.f]
           /\ ex_run' = [ex_run EXCEPT
                            !.i = i + 1,
                            !.generated = st4.generated,
                            !.images = IF st4.raised = ""
                                       THEN Append(@, st4.f.picture_uid) ELSE @,
                            !.errors = IF st4.raised = "" THEN @
                                       ELSE RecordError(@, [file |-> i, e |-> st4.raised])]
           /\ ex_log' = Append(ex_log, [file |-> i, before |-> ex_dir[i],
                                        ops |-> st4.ops, raised |-> st4.raised])
    /\ UNCHANGED <<recon_vars, obj_vars, scan_vars, cfg_vars, tiff_vars>>

\* bulk_export after the loop: export_metadata in its own try
export_metadata ==
    /\ ex_run.pc = "loop"
    /\ ex_run.i > Len(ex_dir)
    /\ \E written \in BOOLEAN :
            ex_run' = [ex_run EXCEPT
                        !.pc = "done",
                        !.metadata = IF written THEN "paths" ELSE "None",
                        !.errors = IF written THEN @
                                   ELSE RecordError(@, [file |-> 0, e |-> "export_metadata"])]
    /\ ex_log' = Append(ex_log, [file |-> 0, before |-> <<>>,
                                 ops |-> <<"export_metadata">>, raised |-> ""])
    /\ UNCHANGED <<ex_dir, recon_vars, obj_vars, scan_vars, cfg_vars, tiff_vars>>

NextExport == process_file \/ export_metadata

SpecExport == InitExport /\ [][NextExport]_vars

-----------------------------------------------------------------------------
(* Properties of bulk_export (checked under SpecExport) *)

\* the iterations of the loop, and the entries of errors made by them
FileLog == SelectSeq(ex_log, LAMBDA l : l.file # 0)

FileErrors == SelectSeq(ex_run.errors, LAMBDA e : e.file # 0)

Called(l, op) == \E k \in DOMAIN l.ops : l.ops[k] = op

\* C28: the files are processed once each, in order; an iteration that
\* failed (progress, decode, identifier write or image export) left exactly
\* one entry in errors and one that did not left one entry in images, so
\* images and per-file errors add up to the files processed; no failure ends
\* the loop, and export_metadata is attempted once all files are done.
C28_PerFileFailuresIsolated ==
    /\ Len(FileLog) = ex_run.i - 1
    /\ ex_run.i <= Len(ex_dir) + 1
    /\ \A k \in DOMAIN FileLog :
            /\ FileLog[k].file = k
            /\ Cardinality({j \in DOMAIN FileErrors : FileErrors[j].file = k})
                    = IF FileLog[k].raised # "" THEN 1 ELSE 0
    /\ Len(ex_run.images) =
            Cardinality({k \in DOMAIN FileLog : FileLog[k].raised = ""})
    /\ Len(ex_run.images) + Len(FileErrors) = Len(FileLog)
    /\ ex_run.pc = "done" =>
            /\ Len(FileLog) = Len(ex_dir)
            /\ Called(ex_log[Len(ex_log)], "export_metadata")
    /\ \A k \in DOMAIN ex_log :
            Called(ex_log[k], "export_metadata") => k = Len(ex_dir) + 1

\* a finished export of three files whose first failed to decode, whose
\* second was exported and whose third failed in the image export
C28_Witness ==
    /\ ex_run.pc = "done"
    /\ Len(ex_dir) = 3
    /\ ex_log[1].raised = "All pixel reading attempts failed"
    /\ ex_log[2].raised = ""
    /\ ex_log[3].raised = "image.save"
    /\ Len(ex_run.images) = 1
    /\ Len(FileErrors) = 2

\* C29: write_picture_uid(save=True) is called on a file, and the file on
\* storage rewritten, only when write_uids is set, the object had no
\* identifier and get_pixel_array had returned; a file that does not decode
\* is never written, and an identifier an object holds is neither replaced
\* nor written by bulk_export and export_single_image.
C29_WriteOnlyAfterDecodeWithoutUid ==
    \A k \in DOMAIN FileLog :
        LET l == FileLog[k]
            f == ex_dir[k]
        IN  /\ Called(l, "write_picture_uid") =>
                /\ ex_run.write_uids
                /\ l.before.picture_uid = "None"
                /\ l.before.decodes
                /\ \E a, b \in DOMAIN l.ops :
                        a < b /\ l.ops[a] = "get_pixel_array"
                              /\ l.ops[b] = "write_picture_uid"
            /\ f.modified => Called(l, "write_picture_uid")
            /\ ~l.before.decodes => ~f.modified
            /\ l.before.picture_uid # "None" =>
                    /\ f.picture_uid = l.before.picture_uid
                    /\ ~Called(l, "generate_picture_uid")
                    /\ ~f.modified

\* a finished export with write_uids set: the write was called on a decoded
\* file without identifier, not on a file that failed to decode, and a file
\* holding an identifier was exported under it
C29_Witness ==
    /\ ex_run.pc = "done"
    /\ ex_run.write_uids
    /\ Len(ex_dir) = 3
    /\ Called(ex_log[1], "write_picture_uid")
    /\ ~ex_dir[2].decodes /\ ex_dir[2].picture_uid = "None" /\ ~ex_dir[2].modified
    /\ ~Called(ex_log[2], "write_picture_uid")
    /\ ex_dir[3].picture_uid = "held"
    /\ ex_run.images = <<"held">>

=============================================================================
